---- MODULE Spec2Model ----
(***************************************************************************)
(* Synapse: retrieval-augmented answering engine and room coordinator.     *)
(*                                                                         *)
(* Every action is "an awaited operation completes and the continuation    *)
(* runs up to the next await".  Commands sent to the Redis client are      *)
(* answered in the order they were sent (one connection): redisQ holds the *)
(* owners of the pending commands and only its head may continue.          *)
(* Similarities are integers in thousandths (900 is 0.9).                  *)
(* Texts are sequences of lower-case word tokens; String.includes is       *)
(* containment of a contiguous run of tokens.                              *)
(***************************************************************************)
EXTENDS Integers, Sequences, FiniteSets, TLC

\* ---------------------------------------------------------------- bounds
MaxCalls == 2
MaxDocs == 1
MaxEvents == 2
MaxJoins == 2
MaxText == 5
MaxSize == 4
MaxIter == 4
MaxNow == 6
MaxChunks == 2
MaxOrganic == 5
MaxLong == 8
MaxKeys == 6
BreakSize == 7

\* ------------------------------------------------------ program constants
BatchSize == 5
TopK == 3
WebTtl == 1800
DocTtl == 3600
KeyChars == 50
ListKeep == 50
ListTtl == 3600
EditWindow == 5
NumResults == 4
maxRestarts == 5
NaN == -9999

Procs == {1, 2}
Sockets == {1, 2}
DocIds == 1..(MaxDocs + 1)

Min(a, b) == IF a < b THEN a ELSE b
Max(a, b) == IF a > b THEN a ELSE b

\* ------------------------------------------------------------ input data
\* Uploaded files: display name, category, number of chunks the chunker
\* yields for the content (a .pdf is always stored as one chunk).
FileTxt == [name |-> "a.txt", type |-> ".txt", nChunks |-> BatchSize + 1]
FileNote == [name |-> "n.txt", type |-> ".txt", nChunks |-> 2]
FileMemo == [name |-> "m.txt", type |-> ".txt", nChunks |-> 1]
FilePdf == [name |-> "z.pdf", type |-> ".pdf", nChunks |-> 1]
NoFile == [name |-> "", type |-> "", nChunks |-> 0]
Files == {FileTxt, FilePdf}
StoredFiles == {FileNote, FilePdf}

\* Chunk texts persisted in the document store.
ChunkText(f, i) ==
  IF f.type = ".pdf" THEN <<"beta", "report">>
  ELSE IF i \in {0, BatchSize} THEN <<"what", "alpha", "means">>
  ELSE <<"gamma">>

QDoc == <<"what", "is", "alpha?">>
QWeb == <<"search", "web", "alpha?">>
QPlain == <<"hello">>
\* two questions of more than KeyBytes characters that differ in their last
\* word only
QLongA == <<"search", "web", "for", "the", "quarterly", "revenue", "figures", "alpha?">>
QLongB == <<"search", "web", "for", "the", "quarterly", "revenue", "figures", "beta?">>
Rooms == {"r1", "r2"}
LongArgs == {<<"r1", QLongA, TRUE>>, <<"r1", QLongB, TRUE>>}
AnswerArgs == {<<"r1", QDoc, TRUE>>, <<"r1", QWeb, TRUE>>, <<"r1", QWeb, FALSE>>}

\* send-message payloads: a chat line, a question, a line of another room, a
\* blank content and a payload without content
SendData ==
  { [roomId |-> "r1", hasContent |-> TRUE, content |-> QPlain, wse |-> TRUE],
    [roomId |-> "r2", hasContent |-> TRUE, content |-> QPlain, wse |-> TRUE],
    [roomId |-> "r1", hasContent |-> TRUE, content |-> QWeb, wse |-> TRUE],
    [roomId |-> "r1", hasContent |-> TRUE, content |-> <<>>, wse |-> TRUE],
    [roomId |-> "r1", hasContent |-> FALSE, content |-> <<>>, wse |-> TRUE] }

\* join-room payloads: a complete one, one without roomId, one without
\* username and an event without payload
JoinData ==
  { [hasData |-> TRUE, roomId |-> "r1", userId |-> "u", username |-> "n"],
    [hasData |-> TRUE, roomId |-> "", userId |-> "u", username |-> "n"],
    [hasData |-> TRUE, roomId |-> "r1", userId |-> "u", username |-> ""],
    [hasData |-> FALSE, roomId |-> "", userId |-> "", username |-> ""] }

\* complete join-room payloads for two rooms
MoveData ==
  { [hasData |-> TRUE, roomId |-> "r1", userId |-> "u", username |-> "n"],
    [hasData |-> TRUE, roomId |-> "r2", userId |-> "u", username |-> "n"] }

QMarkWords == {"alpha?", "beta?", "?"}
GenTexts == {"g1", "g2"}
WebHit == <<[title |-> "t1", link |-> "http://w1", source |-> "w1"]>>

\* ------------------------------------------------------------ text helpers
Includes(hay, needle) ==
  \E k \in 0..(Len(hay) - Len(needle)) :
    \A j \in 1..Len(needle) : hay[k + j] = needle[j]

\* webSearchService.isWebSearchRequest
WebSearchKeywords ==
  { <<"search", "internet">>, <<"search", "web">>, <<"search", "online">>,
    <<"google">>, <<"find", "online">>, <<"web", "search">>,
    <<"internet", "search">>, <<"search", "for">>, <<"look", "up", "online">>,
    <<"find", "more", "info">>, <<"additional", "information">>,
    <<"latest", "news">>, <<"current", "info">> }

isWebSearchRequest(query) == \E kw \in WebSearchKeywords : Includes(query, kw)

\* content.includes('?')
HasQuestionMark(content) == \E j \in 1..Len(content) : content[j] \in QMarkWords

\* number of characters of a text: its words joined by single spaces
RECURSIVE Chars(_)
Chars(text) ==
  IF Len(text) = 0 THEN 0
  ELSE Len(text[1]) + (IF Len(text) > 1 THEN 1 ELSE 0) + Chars(Tail(text))

\* the bytes that KeyChars base64 characters carry whole (6 bits each)
KeyBytes == (KeyChars * 6) \div 8

\* Buffer.from(question).toString('base64').substring(0, 50): base64 is
\* one-to-one on the bytes, so the prefix is the first KeyBytes characters
\* of the question: the words that fit whole, and of the word the limit
\* cuts, the word and the number of its characters kept.
Base64Prefix(question) ==
  LET n == CHOOSE k \in 0..Len(question) :
             /\ Chars(SubSeq(question, 1, k)) <= KeyBytes
             /\ k < Len(question) => Chars(SubSeq(question, 1, k + 1)) > KeyBytes
      kept == KeyBytes - Chars(SubSeq(question, 1, n)) - (IF n > 0 THEN 1 ELSE 0)
  IN [words |-> SubSeq(question, 1, n),
      cut |-> IF n < Len(question) /\ kept > 0
                THEN <<question[n + 1], kept>> ELSE <<>>]

\* `answer:${roomId}:${base64 prefix}:ws${webSearchEnabled}`
AnswerCacheKey(roomId, question, webSearchEnabled) ==
  <<roomId, Base64Prefix(question), webSearchEnabled>>

\* ------------------------------------------------------------- similarity
\* cosineSimilarity(generateEmbedding(query), cached embedding): a
\* deterministic function of the two texts (hash-derived vectors).
EmbedSimilarity(query, f, i) ==
  (((Len(query) * 131 + i * 467 + f.nChunks * 89) % 41) - 20) * 10

\* String.prototype.includes, on strings of characters
StrIncludes(hay, needle) ==
  \E k \in 1..(Len(hay) - Len(needle) + 1) :
    SubSeq(hay, k, k + Len(needle) - 1) = needle

FirstIndex(hay, needle) ==
  CHOOSE k \in 1..(Len(hay) - Len(needle) + 1) :
    /\ SubSeq(hay, k, k + Len(needle) - 1) = needle
    /\ \A j \in 1..(k - 1) : SubSeq(hay, j, j + Len(needle) - 1) # needle

\* String.prototype.toLowerCase, for the capitals the modelled texts use
LowerChar(c) ==
  CASE c = "A" -> "a" [] c = "B" -> "b" [] c = "P" -> "p" [] c = "Z" -> "z"
    [] OTHER -> c

RECURSIVE ToLowerCase(_)
ToLowerCase(s) ==
  IF s = "" THEN ""
  ELSE LowerChar(SubSeq(s, 1, 1)) \o ToLowerCase(SubSeq(s, 2, Len(s)))

\* String.prototype.split(' ')
RECURSIVE Split(_)
Split(s) ==
  IF ~StrIncludes(s, " ") THEN <<s>>
  ELSE LET k == FirstIndex(s, " ")
       IN <<SubSeq(s, 1, k - 1)>> \o Split(SubSeq(s, k + 1, Len(s)))

\* the words of a text joined by single blanks
Join(words) ==
  LET F[k \in 0..Len(words)] ==
        IF k = 0 THEN ""
        ELSE IF k = 1 THEN words[1]
        ELSE F[k - 1] \o " " \o words[k]
  IN F[Len(words)]

\* every word counted, whatever its length
LongWords_All(queryLower) == Split(queryLower)

\* queryLower.split(' ').filter(word => word.length > 2)
LongWords(queryLower) == SelectSeq(Split(queryLower), LAMBDA w : Len(w) > 2)

PdfKeywords == {"pdf", "document", "file", "summary"}

\* name.replace('.pdf', ''): the first occurrence is removed
StripPdf(name) ==
  IF ~StrIncludes(name, ".pdf") THEN name
  ELSE LET k == FirstIndex(name, ".pdf")
       IN SubSeq(name, 1, k - 1) \o SubSeq(name, k + 4, Len(name))

\* Math.max: NaN when either argument is NaN
MathMax(a, b) == IF a = NaN \/ b = NaN THEN NaN ELSE Max(a, b)

\* the similarity of the fallback branch (lines 262-284), in thousandths;
\* 0 / 0 * 0.7 is NaN
FallbackSimilarity(query, text, fileType, originalName) ==
  LET queryLower == ToLowerCase(query)
      chunkTextLower == ToLowerCase(text)
      queryWords == LongWords(queryLower)
      matchedWords ==
        SelectSeq(queryWords, LAMBDA w : StrIncludes(chunkTextLower, w))
      similarity == IF StrIncludes(chunkTextLower, queryLower) THEN 900
                    ELSE IF Len(queryWords) = 0 THEN NaN
                    ELSE (Len(matchedWords) * 700) \div Len(queryWords)
      generic ==
        \/ \E kw \in PdfKeywords : StrIncludes(queryLower, kw)
        \/ StrIncludes(queryLower, StripPdf(ToLowerCase(originalName)))
  IN IF fileType = ".pdf" /\ generic THEN MathMax(similarity, 800)
     ELSE similarity

LexicalSimilarity(query, f, i) ==
  FallbackSimilarity(Join(query), Join(ChunkText(f, i)), f.type, f.name)

\* similarity > 0.1 (false for NaN)
Relevant(similarity) == similarity # NaN /\ similarity > 100

Candidate(doc, i, sim) ==
  [docId |-> doc.id, filename |-> doc.file.name, fileType |-> doc.file.type,
   idx |-> i, similarity |-> sim]

\* fallback branch of retrieveRelevantChunks: push only when similarity > 0.1
LexicalPush(query, doc, i) ==
  LET s == LexicalSimilarity(query, doc.file, i)
  IN IF Relevant(s) THEN <<Candidate(doc, i, s)>> ELSE <<>>

\* Array.prototype.sort((a, b) => b.similarity - a.similarity): stable
InsertDesc(sorted, c) ==
  LET pos == CHOOSE k \in 1..(Len(sorted) + 1) :
               /\ \A j \in 1..(k - 1) : sorted[j].similarity >= c.similarity
               /\ (k <= Len(sorted) => sorted[k].similarity < c.similarity)
  IN SubSeq(sorted, 1, pos - 1) \o <<c>> \o SubSeq(sorted, pos, Len(sorted))

SortDesc(s) ==
  LET F[k \in 0..Len(s)] == IF k = 0 THEN <<>> ELSE InsertDesc(F[k - 1], s[k])
  IN F[Len(s)]

\* the first topK candidates, unsorted
TopChunks_Unsorted(similarities) ==
  SubSeq(similarities, 1, Min(TopK, Len(similarities)))

\* similarities.sort(...).slice(0, topK)
TopChunks(similarities) ==
  LET sorted == SortDesc(similarities)
  IN SubSeq(sorted, 1, Min(TopK, Len(sorted)))


\* ------------------------------------------------------------------ state
VARIABLES
  docs,     \* document store: id -> [status, file]; "none"/"deleted" = no record
  nextId,   \* next fresh document id
  pcache,   \* Passage Cache: the keys doc:<id>:chunk:<i> present, as <<id, i>>
  acache,   \* Answer Cache: key -> [json, ttl] for the keys present
  redisQ,   \* owners of the Redis commands awaiting their reply, oldest first
  ga,       \* per call/handler instance: position and locals
  up,       \* the upload request in progress
  del,      \* the delete request in progress
  calls,    \* number of generateAnswer calls started
  hist,     \* history: arguments -> Answer returned since the last mutation
            \* of the document store, the Passage Cache or the Answer Cache
  sm,       \* per send-message handler instance: position and locals
  msgs,     \* Message store: the saved messages, as <<event, type>>
  rlist,    \* room:<id>:messages lists: room -> [items, ttl]
  bcast,    \* the new-message broadcasts, in the order they were emitted
  recv,     \* number of send-message events received
  jn,       \* per connection: its join-room handler, position and locals
  members,  \* room membership of the connections, as <<socket, room>>
  users,    \* user:<socketId> records: socket -> the fields stored, or none
  joined,   \* the user-joined emits, in the order they were emitted
  joins,    \* number of join-room events received
  ck,       \* the chunkDocument call: its arguments, locals and position
  dc,       \* per connection: its disconnect handler, position and locals
  left,     \* the user-left emits, in the order they were emitted
  um,       \* the updateMessage request: its arguments, position and answer
  now,      \* Date.now(), in minutes
  sc,       \* a retrieval over drawn chunks: query, chunks, position, result
  rp,       \* the reprocess request: its document, position, locals and answer
  ty,       \* a MessageInput component: its state, pending timers, what it emitted
  sv        \* the process supervisor: restartCount, its child, pending restart

roomVars == <<sm, msgs, rlist, bcast, recv>>

joinVars == <<jn, members, users, joined, joins>>

restVars == <<rp, ty, sv>>

vars ==
  <<docs, nextId, pcache, acache, redisQ, ga, up, del, calls, hist,
    sm, msgs, rlist, bcast, recv, jn, members, users, joined, joins, ck,
    dc, left, um, now, sc, rp, ty, sv>>

\* owners of pending Redis commands
GaO(p) == <<"ga", p>>
UpO == <<"up", 0>>
DelO == <<"del", 0>>
SmO(p) == <<"sm", p>>
JnO(s) == <<"jn", s>>
DcO(s) == <<"dc", s>>
RpO == <<"rp", 0>>

Exists(d) == docs[d].status \in {"processing", "completed", "failed"}

IdSeq == [i \in DocIds |-> i]

\* a find without the status filter
CompletedDocs_AnyStatus ==
  LET ids == SelectSeq(IdSeq, LAMBDA d : Exists(d))
  IN [k \in 1..Len(ids) |-> [id |-> ids[k], file |-> docs[ids[k]].file]]

\* Document.find({ status: 'completed' }).lean(), in store order
CompletedDocs ==
  LET ids == SelectSeq(IdSeq, LAMBDA d : docs[d].status = "completed")
  IN [k \in 1..Len(ids) |-> [id |-> ids[k], file |-> docs[ids[k]].file]]

\* Document.countDocuments({ status: 'completed' })
CountCompleted == Cardinality({d \in DocIds : docs[d].status = "completed"})

\* history: the documents whose status is 'completed' right now
StatusCompleted == {d \in DocIds : docs[d].status = "completed"}

ObjectIdStr(d) == "oid" \o ToString(d)

\* ----------------------------------------------------------------- answers
NoAnswer ==
  [answer |-> <<"", 0, FALSE>>, sources |-> <<>>, webResults |-> <<>>,
   wse |-> "absent", error |-> FALSE]

ApologyAnswer ==
  [answer |-> <<"apology", 0, FALSE>>, sources |-> <<>>, webResults |-> <<>>,
   wse |-> "absent", error |-> TRUE]

Canned(text, n, flag) ==
  [answer |-> <<text, n, flag>>, sources |-> <<>>, webResults |-> <<>>,
   wse |-> "absent", error |-> FALSE]

\* Math.round(similarity * 100) / 100
Round2(s) == ((s + 5) \div 10) * 10

Synthesized(text, chunks, web, webSearchEnabled) ==
  [answer |-> <<text, 0, FALSE>>,
   sources |-> [k \in 1..Len(chunks) |->
                  [filename |-> chunks[k].filename,
                   fileType |-> chunks[k].fileType,
                   similarity |-> Round2(chunks[k].similarity)]],
   webResults |-> [k \in 1..Len(web) |->
                  [title |-> web[k].title, source |-> web[k].source,
                   url |-> web[k].link]],
   wse |-> IF webSearchEnabled THEN "true" ELSE "false",
   error |-> FALSE]

\* JSON.stringify / JSON.parse of an Answer: the text keeps every field
JsonStringify(resp) == [text |-> resp]
JsonParse(json) == json.text

\* the string literals occurring in the serialized Answer
JsonStrings(json) ==
  LET a == json.text
  IN {a.answer[1]}
     \cup {a.sources[k].filename : k \in 1..Len(a.sources)}
     \cup {a.sources[k].fileType : k \in 1..Len(a.sources)}
     \cup {a.webResults[k].title : k \in 1..Len(a.webResults)}
     \cup {a.webResults[k].source : k \in 1..Len(a.webResults)}
     \cup {a.webResults[k].url : k \in 1..Len(a.webResults)}

\* cached.includes(documentId)
JsonIncludes(json, documentId) == ObjectIdStr(documentId) \in JsonStrings(json)

\* ---------------------------------------------------------- generateAnswer
IdleGa ==
  [pc |-> "idle", roomId |-> "", question |-> <<>>,
   wse |-> FALSE, snap |-> <<>>, di |-> 0, ci |-> 0, sims |-> <<>>,
   web |-> <<>>, resp |-> NoAnswer, out |-> "pending", fromCache |-> FALSE,
   nRet |-> 0, nWeb |-> 0, nGen |-> 0, fail |-> "none", prev |-> <<>>,
   atFind |-> {}, webErr |-> FALSE, cands |-> <<>>, retErr |-> FALSE,
   prompt |-> "none"]

RedisPcs == {"cacheGet", "chunk", "cacheSet"}

\* return <resp> to the caller
Return(r, resp) ==
  [r EXCEPT !.pc = "returned", !.resp = resp, !.out = "returned",
            !.snap = <<>>, !.di = 0, !.ci = 0, !.sims = <<>>, !.web = <<>>,
            !.cands = <<>>, !.retErr = FALSE, !.prompt = "none"]

\* the exception leaves generateAnswer (no catch block)
GA_Rethrow(r) ==
  [r EXCEPT !.pc = "returned", !.out = "thrown",
            !.snap = <<>>, !.di = 0, !.ci = 0, !.sims = <<>>, !.web = <<>>,
            !.cands = <<>>, !.retErr = FALSE, !.prompt = "none"]

\* catch (error) { return { answer: "I apologize...", sources: [], ... } }
GA_Catch(r) == Return(r, ApologyAnswer)

\* lines 430-497: the prompt built from what is available
PromptKind(relevantChunks, webSearchResults) ==
  IF Len(webSearchResults) > 0 /\ Len(relevantChunks) > 0 THEN "combined"
  ELSE IF Len(webSearchResults) > 0 THEN "webOnly"
  ELSE "documentsOnly"

\* a generation call whatever was found
AfterWeb_AlwaysGenerate(r, webResults) ==
  [r EXCEPT !.pc = "gen", !.web = webResults, !.nGen = @ + 1,
            !.prompt = PromptKind(r.sims, webResults)]

\* lines 402-516 up to the next await: count the documents, or generate
AfterWeb(r, webResults) ==
  IF Len(r.sims) = 0 /\ Len(webResults) = 0
    THEN [r EXCEPT !.pc = "count", !.web = webResults]
    ELSE [r EXCEPT !.pc = "gen", !.web = webResults, !.nGen = @ + 1,
                   !.prompt = PromptKind(r.sims, webResults)]

\* a search for every question that asks for one, enabled or not
AfterRetrieval_AlwaysSearch(r, relevantChunks) ==
  LET r1 == [r EXCEPT !.sims = relevantChunks, !.snap = <<>>, !.di = 0, !.ci = 0]
  IN IF isWebSearchRequest(r.question)
       THEN [r1 EXCEPT !.pc = "web", !.nWeb = @ + 1]
       ELSE AfterWeb(r1, <<>>)

\* lines 343-400 up to the next await: search the web only if requested
\* by the question and enabled
AfterRetrieval(r, relevantChunks) ==
  LET r1 == [r EXCEPT !.sims = relevantChunks, !.snap = <<>>, !.di = 0, !.ci = 0]
  IN IF isWebSearchRequest(r.question) /\ r.wse
       THEN [r1 EXCEPT !.pc = "web", !.nWeb = @ + 1]
       ELSE AfterWeb(r1, <<>>)

\* the chunk loop up to the next await: a .pdf document is scored from the
\* store without any await, a chunk of another document awaits hGetAll
RECURSIVE Advance(_, _, _, _, _)
Advance(snap, di, ci, sims, query) ==
  IF di > Len(snap) THEN [di |-> di, ci |-> 0, sims |-> sims]
  ELSE IF ci >= snap[di].file.nChunks THEN Advance(snap, di + 1, 0, sims, query)
  ELSE IF snap[di].file.type = ".pdf"
    THEN Advance(snap, di, ci + 1, sims \o LexicalPush(query, snap[di], ci), query)
  ELSE [di |-> di, ci |-> ci, sims |-> sims]

ContinueScan(r, snap, adv) ==
  IF adv.di > Len(snap)
    THEN AfterRetrieval([r EXCEPT !.cands = adv.sims], TopChunks(adv.sims))
    ELSE [r EXCEPT !.pc = "chunk", !.snap = snap, !.di = adv.di,
                   !.ci = adv.ci, !.sims = adv.sims]

StartAnswer(r, roomId, question, webSearchEnabled) ==
  [r EXCEPT !.pc = "cacheGet", !.roomId = roomId, !.question = question,
            !.wse = webSearchEnabled]

KeyOf(r) == AnswerCacheKey(r.roomId, r.question, r.wse)

ArgsOf(r) == <<r.roomId, r.question, r.wse>>

\* the Answer an earlier call with the same arguments returned, when nothing
\* was mutated since
Prev(r) == IF ArgsOf(r) \in DOMAIN hist THEN <<hist[ArgsOf(r)]>> ELSE <<>>

Enqueue(q, p, r) == IF r.pc \in RedisPcs THEN Append(q, GaO(p)) ELSE q

\* generateAnswer(question, roomId, webSearchEnabled) is called; it sends
\* redisClient.get(cacheKey)
Free(p) == ga[p].pc \in {"idle", "returned"}

CallWith(p, args) ==
  /\ calls < MaxCalls
  /\ Free(p) /\ \A o \in Procs : o < p => ~Free(o)
  /\ \E a \in args :
       ga' = [ga EXCEPT ![p] = StartAnswer(IdleGa, a[1], a[2], a[3])]
  /\ redisQ' = Append(redisQ, GaO(p))
  /\ calls' = calls + 1
  /\ UNCHANGED <<docs, nextId, pcache, acache, up, del>>

GA_Call(p) == CallWith(p, AnswerArgs)

\* the same question is asked in the same room, one call after the other
GA_Ask(p) == CallWith(p, {<<"r1", QDoc, TRUE>>}) /\ \A o \in Procs : Free(o)

\* a call with a question longer than the part of it the cache key keeps
GA_CallLong(p) == CallWith(p, LongArgs)

\* a get that never finds the entry
CacheGetReply_NoHit(r, ok) ==
  IF ~ok THEN GA_Catch([r EXCEPT !.fail = "cacheRead"])
  ELSE [r EXCEPT !.pc = "find", !.nRet = @ + 1]

\* reply of redisClient.get(cacheKey): hit -> return the parsed Answer;
\* miss -> retrieveRelevantChunks sends Document.find
CacheGetReply(r, ok) ==
  IF ~ok THEN GA_Catch([r EXCEPT !.fail = "cacheRead"])
  ELSE IF KeyOf(r) \in DOMAIN acache
    THEN Return([r EXCEPT !.fromCache = TRUE], JsonParse(acache[KeyOf(r)].json))
  ELSE [r EXCEPT !.pc = "find", !.nRet = @ + 1]

GA_CacheGet(p) ==
  /\ ga[p].pc = "cacheGet"
  /\ redisQ # <<>> /\ Head(redisQ) = GaO(p)
  /\ \E ok \in BOOLEAN :
       ga' = [ga EXCEPT ![p] = CacheGetReply([ga[p] EXCEPT !.prev = Prev(ga[p])], ok)]
  /\ redisQ' = Tail(redisQ)
  /\ UNCHANGED <<docs, nextId, pcache, acache, up, del, calls>>

\* reply of Document.find({status:'completed'}); a failure is caught by
\* retrieveRelevantChunks, which then returns []
FindReply(r, ok) ==
  IF ~ok THEN AfterRetrieval([r EXCEPT !.retErr = TRUE], <<>>)
  ELSE IF Len(CompletedDocs) = 0 THEN AfterRetrieval(r, <<>>)
  ELSE ContinueScan(r, CompletedDocs,
                    Advance(CompletedDocs, 1, 0, <<>>, r.question))

RET_Find(p) ==
  /\ ga[p].pc = "find"
  /\ \E ok \in BOOLEAN :
       /\ ga' = [ga EXCEPT ![p] = FindReply([ga[p] EXCEPT !.atFind = StatusCompleted], ok)]
       /\ redisQ' = Enqueue(redisQ, p, ga'[p])
  /\ UNCHANGED <<docs, nextId, pcache, acache, up, del, calls>>

\* a chunk without cache entry is passed over
ChunkReply_MissSkips(r, ok) ==
  LET doc == r.snap[r.di]
      sims2 == IF ok /\ <<doc.id, r.ci>> \in pcache
                 THEN Append(r.sims, Candidate(doc, r.ci,
                               EmbedSimilarity(r.question, doc.file, r.ci)))
               ELSE r.sims
  IN ContinueScan([r EXCEPT !.retErr = @ \/ ~ok], r.snap,
                  Advance(r.snap, r.di, r.ci + 1, sims2, r.question))

\* reply of redisClient.hGetAll(chunkKey) for chunk ci of document snap[di]:
\* a rejection is caught per chunk (298-301) and the chunk passed over; an
\* entry without embedding falls through to the text of the stored chunk
ChunkReply(r, ok) ==
  LET doc == r.snap[r.di]
      sims2 == IF ~ok THEN r.sims
               ELSE IF <<doc.id, r.ci>> \in pcache
                 THEN Append(r.sims, Candidate(doc, r.ci,
                               EmbedSimilarity(r.question, doc.file, r.ci)))
               ELSE r.sims \o LexicalPush(r.question, doc, r.ci)
  IN ContinueScan([r EXCEPT !.retErr = @ \/ ~ok], r.snap,
                  Advance(r.snap, r.di, r.ci + 1, sims2, r.question))

RET_Chunk(p) ==
  /\ ga[p].pc = "chunk"
  /\ redisQ # <<>> /\ Head(redisQ) = GaO(p)
  /\ \E ok \in BOOLEAN :
       /\ ga' = [ga EXCEPT ![p] = ChunkReply(ga[p], ok)]
       /\ redisQ' = Enqueue(Tail(redisQ), p, ga'[p])
  /\ UNCHANGED <<docs, nextId, pcache, acache, up, del, calls>>

\* results.organic of the search API's reply
Organic(n) ==
  [k \in 1..n |-> [title |-> "t" \o ToString(k),
                   link |-> "http://w" \o ToString(k),
                   source |-> "w" \o ToString(k)]]

OrganicOf(outcome) ==
  IF outcome = "hit" THEN WebHit
  ELSE IF outcome = "many" THEN Organic(MaxOrganic)
  ELSE <<>>

\* every organic result returned
SearchWeb_NoSlice(organic, numResults) == organic

\* webSearchService.searchWeb: results.organic.slice(0, numResults).map(...)
SearchWeb(organic, numResults) ==
  SubSeq(organic, 1, Min(numResults, Len(organic)))

\* a failed search ends the call
WebReply_Fatal(r, outcome) ==
  IF outcome = "fail" THEN GA_Catch([r EXCEPT !.webErr = TRUE])
  ELSE AfterWeb(r, SearchWeb(OrganicOf(outcome), NumResults))

\* webSearchService.searchWeb settles: a rejection (no credential, request
\* failed) is caught at 377 / 394 and webSearchResults stays []
WebReply(r, outcome) ==
  IF outcome = "fail" THEN AfterWeb([r EXCEPT !.webErr = TRUE], <<>>)
  ELSE AfterWeb(r, SearchWeb(OrganicOf(outcome), NumResults))

\* webSearchService.searchWeb settles: a failure is caught, results stay []
WebWith(p, outcomes) ==
  /\ ga[p].pc = "web"
  /\ \E outcome \in outcomes :
       ga' = [ga EXCEPT ![p] = WebReply(ga[p], outcome)]
  /\ UNCHANGED <<docs, nextId, pcache, acache, redisQ, up, del, calls>>

GA_Web(p) == WebWith(p, {"fail", "none", "hit"})

\* the search API replies with more organic results than were asked for
GA_WebMany(p) == WebWith(p, {"many"})

\* lines 405-427: the canned answer chosen with totalDocs
CannedAnswer(r, totalDocs) ==
  IF ~r.wse /\ isWebSearchRequest(r.question) THEN Canned("webDisabled", 0, FALSE)
  ELSE IF totalDocs = 0 THEN Canned("noDocuments", 0, r.wse)
  ELSE Canned("notRelevant", totalDocs, r.wse)

CountReply(r, ok) ==
  IF ~ok THEN GA_Catch([r EXCEPT !.fail = "count"])
  ELSE [r EXCEPT !.pc = "cacheSet", !.resp = CannedAnswer(r, CountCompleted)]

GA_Count(p) ==
  /\ ga[p].pc = "count"
  /\ \E ok \in BOOLEAN :
       /\ ga' = [ga EXCEPT ![p] = CountReply(ga[p], ok)]
       /\ redisQ' = Enqueue(redisQ, p, ga'[p])
  /\ UNCHANGED <<docs, nextId, pcache, acache, up, del, calls>>

\* a failed generation is issued again
GenReply_Retry(r, text) ==
  IF text = "fail" THEN [r EXCEPT !.nGen = @ + 1]
  ELSE [r EXCEPT !.pc = "cacheSet",
                 !.resp = Synthesized(text, r.sims, r.web, r.wse)]

\* this.model.generateContent(prompt) settles
GenReply(r, text) ==
  IF text = "fail" THEN GA_Catch([r EXCEPT !.fail = "gen"])
  ELSE [r EXCEPT !.pc = "cacheSet",
                 !.resp = Synthesized(text, r.sims, r.web, r.wse)]

GA_Gen(p) ==
  /\ ga[p].pc = "gen"
  /\ \E text \in GenTexts \cup {"fail"} :
       /\ ga' = [ga EXCEPT ![p] = GenReply(ga[p], text)]
       /\ redisQ' = Enqueue(redisQ, p, ga'[p])
  /\ UNCHANGED <<docs, nextId, pcache, acache, up, del, calls>>

\* one lifetime for every answer
CacheTime_DocOnly(webSearchResults) == DocTtl

\* const cacheTime = webSearchResults.length > 0 ? 1800 : 3600
CacheTime(webSearchResults) == IF Len(webSearchResults) > 0 THEN WebTtl ELSE DocTtl

Put(f, k, v) == [x \in DOMAIN f \cup {k} |-> IF x = k THEN v ELSE f[x]]
Drop(f, ks) == [x \in DOMAIN f \ ks |-> f[x]]

\* reply of redisClient.setEx(cacheKey, cacheTime, JSON.stringify(response))
CacheSetReply(r, ok) ==
  IF ok THEN Return(r, r.resp) ELSE GA_Catch([r EXCEPT !.fail = "cacheWrite"])

GA_CacheSet(p) ==
  /\ ga[p].pc = "cacheSet"
  /\ redisQ # <<>> /\ Head(redisQ) = GaO(p)
  /\ \E ok \in BOOLEAN :
       /\ ga' = [ga EXCEPT ![p] = CacheSetReply(ga[p], ok)]
       /\ acache' = IF ok
                      THEN Put(acache, KeyOf(ga[p]),
                               [json |-> JsonStringify(ga[p].resp),
                                ttl |-> CacheTime(ga[p].web)])
                      ELSE acache
  /\ redisQ' = Tail(redisQ)
  /\ UNCHANGED <<docs, nextId, pcache, up, del, calls>>


\* ------------------------------------------------- upload / processDocument
IdleUp == [pc |-> "idle", id |-> 0, id2 |-> 0, file |-> NoFile, batch |-> 0]

\* chunk indices of batch b: chunks.slice(i, i + batchSize)
BatchKeys(id, f, b) ==
  {<<id, i>> : i \in (b * BatchSize)..(Min((b + 1) * BatchSize, f.nChunks) - 1)}

\* POST /upload passes its checks (no document of the same name and size),
\* processDocument builds the record and sends document.save()
Upload(f) ==
  /\ up.pc = "idle"
  /\ nextId <= MaxDocs
  /\ \A d \in DocIds : Exists(d) => docs[d].file # f
  /\ up' = [IdleUp EXCEPT !.pc = "save1", !.id = nextId, !.file = f]
  /\ nextId' = nextId + 1
  /\ UNCHANGED <<docs, pcache, acache, redisQ, ga, del, calls>>

\* the upload route's catch: save a record of status 'failed' instead
UploadCatch(u) == [u EXCEPT !.pc = "saveFailed", !.id2 = nextId]

\* reply of the first document.save() (status 'processing')
PD_Save1 ==
  /\ up.pc = "save1"
  /\ \E ok \in BOOLEAN :
       IF ok
         THEN /\ docs' = [docs EXCEPT ![up.id] =
                            [status |-> "processing", file |-> up.file]]
              /\ up' = [up EXCEPT !.pc = IF up.file.type = ".pdf"
                                           THEN "save2" ELSE "batch"]
              /\ redisQ' = IF up.file.type = ".pdf"
                             THEN redisQ ELSE Append(redisQ, UpO)
              /\ UNCHANGED nextId
         ELSE /\ up' = UploadCatch(up)
              /\ nextId' = nextId + 1
              /\ UNCHANGED <<docs, redisQ>>
  /\ UNCHANGED <<pcache, acache, ga, del, calls>>

\* replies of the hSet commands of one batch (sent together, so nothing
\* comes between them); a failure is caught per chunk
PD_Batch ==
  /\ up.pc = "batch"
  /\ redisQ # <<>> /\ Head(redisQ) = UpO
  /\ \E ok \in BOOLEAN :
       /\ pcache' = IF ok THEN pcache \cup BatchKeys(up.id, up.file, up.batch)
                          ELSE pcache
       /\ up' = [up EXCEPT !.pc =
                   IF ok THEN "expire"
                   ELSE IF (up.batch + 1) * BatchSize < up.file.nChunks
                     THEN "delay" ELSE "save2"]
       /\ redisQ' = IF ok THEN Append(Tail(redisQ), UpO) ELSE Tail(redisQ)
  /\ UNCHANGED <<docs, nextId, acache, ga, del, calls>>

\* replies of the expire(cacheKey, 86400) commands of the batch
PD_Expire ==
  /\ up.pc = "expire"
  /\ redisQ # <<>> /\ Head(redisQ) = UpO
  /\ up' = [up EXCEPT !.pc = IF (up.batch + 1) * BatchSize < up.file.nChunks
                               THEN "delay" ELSE "save2"]
  /\ redisQ' = Tail(redisQ)
  /\ UNCHANGED <<docs, nextId, pcache, acache, ga, del, calls>>

\* the 100 ms pause between batches ends; the next batch is sent
PD_Delay ==
  /\ up.pc = "delay"
  /\ up' = [up EXCEPT !.pc = "batch", !.batch = @ + 1]
  /\ redisQ' = Append(redisQ, UpO)
  /\ UNCHANGED <<docs, nextId, pcache, acache, ga, del, calls>>

\* reply of the second document.save() (status 'completed'); saving a
\* record that was deleted meanwhile rejects (no document matches)
PD_Save2 ==
  /\ up.pc = "save2"
  /\ \E ok \in BOOLEAN :
       IF ok /\ Exists(up.id)
         THEN /\ docs' = [docs EXCEPT ![up.id].status = "completed"]
              /\ up' = IdleUp
              /\ UNCHANGED nextId
         ELSE /\ up' = UploadCatch(up)
              /\ nextId' = nextId + 1
              /\ UNCHANGED docs
  /\ UNCHANGED <<pcache, acache, redisQ, ga, del, calls>>

\* reply of the save of the 'failed' record; filename is unique, so it is
\* rejected while the record saved first still exists
UP_SaveFailed ==
  /\ up.pc = "saveFailed"
  /\ \E ok \in BOOLEAN :
       docs' = IF ok /\ ~Exists(up.id)
                 THEN [docs EXCEPT ![up.id2] =
                         [status |-> "failed", file |-> up.file]]
                 ELSE docs
  /\ up' = IdleUp
  /\ UNCHANGED <<nextId, pcache, acache, redisQ, ga, del, calls>>

\* ------------------------------------- DELETE /:id, deleteDocumentFromCache
IdleDel == [pc |-> "idle", id |-> 0, keys |-> {}, akeys |-> <<>>, ai |-> 0,
            related |-> {}, done |-> "none"]

\* the request is answered; id and done remember the last request ("clean":
\* deleteDocumentFromCache ran to its end, "error": its catch logged an error)
DelDone(kind) == [IdleDel EXCEPT !.id = del.id, !.done = kind]

SetToSeq(S) ==
  CHOOSE s \in [1..Cardinality(S) -> S] : \A x \in S : \E k \in DOMAIN s : s[k] = x

\* Document.findById(id) found the document; findByIdAndDelete is sent
DEL_Find(d) ==
  /\ del.pc = "idle"
  /\ Exists(d)
  /\ del' = [IdleDel EXCEPT !.pc = "remove", !.id = d]
  /\ UNCHANGED <<docs, nextId, pcache, acache, redisQ, ga, up, calls>>

\* reply of findByIdAndDelete; then deleteDocumentFromCache sends keys(doc:<id>:*)
DEL_Remove ==
  /\ del.pc = "remove"
  /\ \E ok \in BOOLEAN :
       IF ok
         THEN /\ docs' = [docs EXCEPT ![del.id].status = "deleted"]
              /\ del' = [del EXCEPT !.pc = "keys"]
              /\ redisQ' = Append(redisQ, DelO)
         ELSE /\ del' = DelDone("failed")
              /\ UNCHANGED <<docs, redisQ>>
  /\ UNCHANGED <<nextId, pcache, acache, ga, up, calls>>

\* reply of keys(doc:<id>:*): del(keys) when there are any, else keys(answer:*)
DDC_Keys ==
  /\ del.pc = "keys"
  /\ redisQ # <<>> /\ Head(redisQ) = DelO
  /\ \E ok \in BOOLEAN :
       LET keys == {k \in pcache : k[1] = del.id}
       IN IF ok
            THEN /\ del' = [del EXCEPT !.keys = keys,
                              !.pc = IF keys # {} THEN "delKeys" ELSE "akeys"]
                 /\ redisQ' = Append(Tail(redisQ), DelO)
            ELSE /\ del' = DelDone("error")
                 /\ redisQ' = Tail(redisQ)
  /\ UNCHANGED <<docs, nextId, pcache, acache, ga, up, calls>>

\* reply of del(keys); keys(answer:*) is sent
DDC_Del ==
  /\ del.pc = "delKeys"
  /\ redisQ # <<>> /\ Head(redisQ) = DelO
  /\ \E ok \in BOOLEAN :
       IF ok
         THEN /\ pcache' = pcache \ del.keys
              /\ del' = [del EXCEPT !.pc = "akeys", !.keys = {}]
              /\ redisQ' = Append(Tail(redisQ), DelO)
         ELSE /\ del' = DelDone("error")
              /\ redisQ' = Tail(redisQ)
              /\ UNCHANGED pcache
  /\ UNCHANGED <<docs, nextId, acache, ga, up, calls>>

\* reply of keys(answer:*); get(key) of the first key is sent
DDC_AnswerKeys ==
  /\ del.pc = "akeys"
  /\ redisQ # <<>> /\ Head(redisQ) = DelO
  /\ \E ok \in BOOLEAN :
       IF ok /\ DOMAIN acache # {}
         THEN /\ del' = [del EXCEPT !.pc = "aget", !.ai = 1,
                           !.akeys = SetToSeq(DOMAIN acache)]
              /\ redisQ' = Append(Tail(redisQ), DelO)
         ELSE /\ del' = DelDone(IF ok THEN "clean" ELSE "error")
              /\ redisQ' = Tail(redisQ)
  /\ UNCHANGED <<docs, nextId, pcache, acache, ga, up, calls>>

\* reply of get(key) in the loop over the answer keys; after the last key
\* the related keys, if any, are removed by del(relatedAnswerKeys)
DDC_Get ==
  /\ del.pc = "aget"
  /\ redisQ # <<>> /\ Head(redisQ) = DelO
  /\ \E ok \in BOOLEAN :
       LET key == del.akeys[del.ai]
           hit == key \in DOMAIN acache /\ JsonIncludes(acache[key].json, del.id)
           related == IF hit THEN del.related \cup {key} ELSE del.related
       IN IF ok /\ del.ai < Len(del.akeys)
            THEN /\ del' = [del EXCEPT !.ai = @ + 1, !.related = related]
                 /\ redisQ' = Append(Tail(redisQ), DelO)
                 /\ UNCHANGED acache
            ELSE /\ del' = DelDone(IF ok THEN "clean" ELSE "error")
                 /\ redisQ' = Tail(redisQ)
                 /\ acache' = IF ok THEN Drop(acache, related) ELSE acache
  /\ UNCHANGED <<docs, nextId, pcache, ga, up, calls>>


\* ------------------------------------ POST /:id/reprocess, reprocessDocument
IdleRp == [pc |-> "idle", id |-> 0, keys |-> {}, akeys |-> <<>>, ai |-> 0,
           related |-> {}, out |-> "none", before |-> "none", evicted |-> 0,
           dropped |-> 0]

\* evicted and dropped count the keys the request removed from the Passage
\* Cache and the Answer Cache (the two 'Deleted n ...' log lines).
\* the request is answered: "notFound" (404), "rejected" (400), "failed"
\* (500 after the record was marked failed), "error" (the save in the catch
\* block was rejected as well)
RpDone(kind) == [rp EXCEPT !.pc = "done", !.out = kind]

\* deleteDocumentFromCache has returned (its catch logs an error and returns
\* as well); processDocument builds a new Document with the filename of the
\* record being reprocessed and sends its save()
RpCleaned == [rp EXCEPT !.pc = "create", !.keys = {}, !.akeys = <<>>, !.ai = 0,
                        !.related = {}]

\* reply of Document.findById(id): 404 without a record, 400 for a record in
\* status 'processing'; else document.status = 'processing' and save() is sent
RP_Find(d) ==
  /\ rp.pc \in {"idle", "done"}
  /\ rp' = IF ~Exists(d) THEN [IdleRp EXCEPT !.pc = "done", !.id = d,
                                             !.out = "notFound"]
           ELSE IF docs[d].status = "processing"
             THEN [IdleRp EXCEPT !.pc = "done", !.id = d, !.out = "rejected",
                                 !.before = "processing"]
           ELSE [IdleRp EXCEPT !.pc = "save1", !.id = d,
                               !.before = docs[d].status]
  /\ UNCHANGED <<docs, nextId, pcache, acache, redisQ, ga, up, del, calls>>

\* reply of document.save() (status 'processing'); then
\* deleteDocumentFromCache sends keys(doc:<id>:*). A rejected save goes to the
\* catch block, which sends the save of status 'failed'.
RP_Save1 ==
  /\ rp.pc = "save1"
  /\ \E ok \in BOOLEAN :
       IF ok
         THEN /\ docs' = [docs EXCEPT ![rp.id].status = "processing"]
              /\ rp' = [rp EXCEPT !.pc = "keys"]
              /\ redisQ' = Append(redisQ, RpO)
         ELSE /\ rp' = [rp EXCEPT !.pc = "saveFailed"]
              /\ UNCHANGED <<docs, redisQ>>
  /\ UNCHANGED <<nextId, pcache, acache, ga, up, del, calls>>

\* reply of keys(doc:<id>:*): del(keys) when there are any, else keys(answer:*)
RP_Keys ==
  /\ rp.pc = "keys"
  /\ redisQ # <<>> /\ Head(redisQ) = RpO
  /\ \E ok \in BOOLEAN :
       LET keys == {k \in pcache : k[1] = rp.id}
       IN IF ok
            THEN /\ rp' = [rp EXCEPT !.keys = keys,
                             !.pc = IF keys # {} THEN "delKeys" ELSE "akeys"]
                 /\ redisQ' = Append(Tail(redisQ), RpO)
            ELSE /\ rp' = RpCleaned
                 /\ redisQ' = Tail(redisQ)
  /\ UNCHANGED <<docs, nextId, pcache, acache, ga, up, del, calls>>

\* reply of del(keys); keys(answer:*) is sent
RP_Del ==
  /\ rp.pc = "delKeys"
  /\ redisQ # <<>> /\ Head(redisQ) = RpO
  /\ \E ok \in BOOLEAN :
       IF ok
         THEN /\ pcache' = pcache \ rp.keys
              /\ rp' = [rp EXCEPT !.pc = "akeys", !.keys = {},
                                  !.evicted = Cardinality(rp.keys)]
              /\ redisQ' = Append(Tail(redisQ), RpO)
         ELSE /\ rp' = RpCleaned
              /\ redisQ' = Tail(redisQ)
              /\ UNCHANGED pcache
  /\ UNCHANGED <<docs, nextId, acache, ga, up, del, calls>>

\* reply of keys(answer:*); get(key) of the first key is sent
RP_AnswerKeys ==
  /\ rp.pc = "akeys"
  /\ redisQ # <<>> /\ Head(redisQ) = RpO
  /\ \E ok \in BOOLEAN :
       IF ok /\ DOMAIN acache # {}
         THEN /\ rp' = [rp EXCEPT !.pc = "aget", !.ai = 1,
                          !.akeys = SetToSeq(DOMAIN acache)]
              /\ redisQ' = Append(Tail(redisQ), RpO)
         ELSE /\ rp' = RpCleaned
              /\ redisQ' = Tail(redisQ)
  /\ UNCHANGED <<docs, nextId, pcache, acache, ga, up, del, calls>>

\* reply of get(key) in the loop over the answer keys; after the last key
\* the related keys, if any, are removed by del(relatedAnswerKeys)
RP_Get ==
  /\ rp.pc = "aget"
  /\ redisQ # <<>> /\ Head(redisQ) = RpO
  /\ \E ok \in BOOLEAN :
       LET key == rp.akeys[rp.ai]
           hit == key \in DOMAIN acache /\ JsonIncludes(acache[key].json, rp.id)
           related == IF hit THEN rp.related \cup {key} ELSE rp.related
       IN IF ok /\ rp.ai < Len(rp.akeys)
            THEN /\ rp' = [rp EXCEPT !.ai = @ + 1, !.related = related]
                 /\ redisQ' = Append(Tail(redisQ), RpO)
                 /\ UNCHANGED acache
            ELSE /\ rp' = [RpCleaned EXCEPT
                            !.dropped = IF ok THEN Cardinality(related) ELSE 0]
                 /\ redisQ' = Tail(redisQ)
                 /\ acache' = IF ok THEN Drop(acache, related) ELSE acache
  /\ UNCHANGED <<docs, nextId, pcache, ga, up, del, calls>>

\* reply of the save() of the new Document in processDocument: filename is
\* unique and the record being reprocessed holds it, so the insert is
\* rejected; processDocument rethrows and the catch block of
\* reprocessDocument sets document.status = 'failed' and sends save()
RP_Create ==
  /\ rp.pc = "create"
  /\ Exists(rp.id)
  /\ rp' = [rp EXCEPT !.pc = "saveFailed"]
  /\ UNCHANGED <<docs, nextId, pcache, acache, redisQ, ga, up, del, calls>>

\* reply of document.save() (status 'failed') in the catch block; when it is
\* rejected the error leaves the handler
RP_SaveFailed ==
  /\ rp.pc = "saveFailed"
  /\ \E ok \in BOOLEAN :
       /\ docs' = IF ok THEN [docs EXCEPT ![rp.id].status = "failed"] ELSE docs
       /\ rp' = RpDone(IF ok THEN "failed" ELSE "error")
  /\ UNCHANGED <<nextId, pcache, acache, redisQ, ga, up, del, calls>>

\* ------------------------------------------------- send-message handler
IdleSm ==
  [pc |-> "idle", seq |-> 0, roomId |-> "", content |-> <<>>, wse |-> FALSE,
   err |-> "none", emits |-> {}, gaFail |-> "none"]

\* what the handler keeps of a call that has returned: aiResponse
Consumed(r) ==
  [IdleGa EXCEPT !.pc = r.pc, !.out = r.out, !.resp = r.resp,
                 !.roomId = r.roomId, !.question = r.question, !.wse = r.wse]

\* the locals of a handler that has finished are gone
Finish(p) ==
  IF sm'[p].pc = "done" THEN [ga EXCEPT ![p] = IdleGa]
  ELSE [ga EXCEPT ![p] = Consumed(@)]

SmFree(p) == sm[p].pc \in {"idle", "done"}

InvalidData_RoomOnly(data) == data.roomId = ""

\* !roomId || !userId || !username || !content?.trim()
InvalidData(data) == data.roomId = "" \/ Len(data.content) = 0

\* catch (error) { socket.emit('error', { message: 'Failed to send message' }) }
OuterCatch(h, kind) ==
  [h EXCEPT !.pc = "done", !.err = kind, !.emits = @ \cup {"error:send"}]

\* catch (error) { socket.emit('ai-error', ...) }
InnerCatch(h, kind) ==
  [h EXCEPT !.pc = "done", !.err = kind, !.emits = @ \cup {"ai-error"}]

UserMessage(h) ==
  [seq |-> h.seq, roomId |-> h.roomId, type |-> "user", content |-> h.content,
   answer |-> NoAnswer.answer]

AiMessage(h, aiResponse) ==
  [seq |-> h.seq, roomId |-> h.roomId, type |-> "ai", content |-> <<>>,
   answer |-> aiResponse.answer]

\* the list at cacheKey = `room:${roomId}:messages`
RoomList(p) == rlist[sm[p].roomId]

LPush(list, m) == [list EXCEPT !.items = <<[seq |-> m.seq, type |-> m.type]>> \o @]
LTrim(list) == [list EXCEPT !.items = SubSeq(@, 1, Min(ListKeep, Len(@)))]
Expire(list) == IF Len(list.items) = 0 THEN list ELSE [list EXCEPT !.ttl = ListTtl]

\* a send-message event arrives: destructuring, the log line (which throws
\* on a payload without content), validation, message.save() sent
SM_Receive(p) ==
  /\ recv < MaxEvents
  /\ SmFree(p) /\ \A o \in Procs : o < p => ~SmFree(o)
  /\ \E data \in SendData :
       LET h == [IdleSm EXCEPT !.seq = recv + 1, !.roomId = data.roomId,
                               !.content = data.content, !.wse = data.wse]
       IN sm' = [sm EXCEPT ![p] =
                   IF ~data.hasContent THEN OuterCatch(h, "input")
                   ELSE IF InvalidData(data)
                     THEN [h EXCEPT !.pc = "done", !.err = "input",
                                    !.emits = {"error:invalid"}]
                   ELSE [h EXCEPT !.pc = "save"]]
  /\ ga' = [ga EXCEPT ![p] = IdleGa]
  /\ recv' = recv + 1
  /\ UNCHANGED <<docs, nextId, pcache, acache, redisQ, up, del, calls>>
  /\ UNCHANGED <<msgs, rlist, bcast>>

\* reply of message.save(): lPush of the message data sent
SM_Save(p) ==
  /\ sm[p].pc = "save"
  /\ \E ok \in BOOLEAN :
       IF ok
         THEN /\ msgs' = msgs \cup {UserMessage(sm[p])}
              /\ sm' = [sm EXCEPT ![p].pc = "push"]
              /\ redisQ' = Append(redisQ, SmO(p))
         ELSE /\ sm' = [sm EXCEPT ![p] = OuterCatch(@, "store")]
              /\ UNCHANGED <<msgs, redisQ>>
  /\ UNCHANGED <<docs, nextId, pcache, acache, ga, up, del, calls>>
  /\ UNCHANGED <<rlist, bcast, recv>>

\* reply of a list command of the handler at <pc>: on success <list> is the
\* new list and the handler moves to <next>, sending the next list command;
\* on failure the handler ends as <caught>
ListReply(p, pc, next, list, caught) ==
  /\ sm[p].pc = pc
  /\ redisQ # <<>> /\ Head(redisQ) = SmO(p)
  /\ \E ok \in BOOLEAN :
       IF ok
         THEN /\ rlist' = [rlist EXCEPT ![sm[p].roomId] = list]
              /\ sm' = [sm EXCEPT ![p].pc = next]
              /\ redisQ' = Append(Tail(redisQ), SmO(p))
         ELSE /\ sm' = [sm EXCEPT ![p] = caught]
              /\ redisQ' = Tail(redisQ)
              /\ UNCHANGED rlist
  /\ ga' = Finish(p)
  /\ UNCHANGED <<docs, nextId, pcache, acache, up, del, calls>>
  /\ UNCHANGED <<msgs, bcast, recv>>

\* reply of redisClient.lPush(cacheKey, JSON.stringify(messageData))
SM_Push(p) ==
  ListReply(p, "push", "trim", LPush(RoomList(p), UserMessage(sm[p])),
            OuterCatch(sm[p], "cache"))

\* reply of redisClient.lTrim(cacheKey, 0, 49)
SM_Trim(p) ==
  ListReply(p, "trim", "expire", LTrim(RoomList(p)), OuterCatch(sm[p], "cache"))

\* reply of redisClient.expire(cacheKey, 3600): broadcast new-message; for
\* a content with '?', emit ai-thinking and call generateAnswer, which sends
\* redisClient.get(cacheKey)
SM_Expire(p) ==
  /\ sm[p].pc = "expire"
  /\ redisQ # <<>> /\ Head(redisQ) = SmO(p)
  /\ \E ok \in BOOLEAN :
       IF ~ok
         THEN /\ sm' = [sm EXCEPT ![p] = OuterCatch(@, "cache")]
              /\ redisQ' = Tail(redisQ)
              /\ UNCHANGED <<rlist, bcast, ga>>
         ELSE /\ rlist' = [rlist EXCEPT ![sm[p].roomId] = Expire(@)]
              /\ bcast' = Append(bcast, UserMessage(sm[p]))
              /\ IF HasQuestionMark(sm[p].content)
                   THEN /\ sm' = [sm EXCEPT ![p].pc = "answer",
                                            ![p].emits = @ \cup {"ai-thinking"}]
                        /\ ga' = [ga EXCEPT ![p] =
                                    StartAnswer(IdleGa, sm[p].roomId,
                                                sm[p].content, sm[p].wse)]
                        /\ redisQ' = Append(Tail(redisQ), GaO(p))
                   ELSE /\ sm' = [sm EXCEPT ![p].pc = "done"]
                        /\ redisQ' = Tail(redisQ)
                        /\ UNCHANGED ga
  /\ UNCHANGED <<docs, nextId, pcache, acache, up, del, calls>>
  /\ UNCHANGED <<msgs, recv>>

\* generateAnswer has returned and aiMessage.save() was sent; its reply:
\* lPush of the assistant message data sent
SM_AiSave(p) ==
  /\ sm[p].pc = "answer" /\ ga[p].pc = "returned"
  /\ \E ok \in BOOLEAN :
       IF ga[p].out = "thrown" \/ ~ok
         THEN /\ sm' = [sm EXCEPT ![p] =
                          InnerCatch([@ EXCEPT !.gaFail = ga[p].fail],
                                     IF ok THEN "answer" ELSE "store")]
              /\ UNCHANGED <<msgs, redisQ>>
         ELSE /\ msgs' = msgs \cup {AiMessage(sm[p], ga[p].resp)}
              /\ sm' = [sm EXCEPT ![p].pc = "aiPush", ![p].gaFail = ga[p].fail]
              /\ redisQ' = Append(redisQ, SmO(p))
  /\ ga' = Finish(p)
  /\ UNCHANGED <<docs, nextId, pcache, acache, up, del, calls>>
  /\ UNCHANGED <<rlist, bcast, recv>>

\* reply of redisClient.lPush(cacheKey, JSON.stringify(aiMessageData))
SM_AiPush(p) ==
  ListReply(p, "aiPush", "aiTrim",
            LPush(RoomList(p), AiMessage(sm[p], ga[p].resp)),
            InnerCatch(sm[p], "cache"))

\* reply of redisClient.lTrim(cacheKey, 0, 49)
SM_AiTrim(p) ==
  ListReply(p, "aiTrim", "aiExpire", LTrim(RoomList(p)), InnerCatch(sm[p], "cache"))

\* reply of redisClient.expire(cacheKey, 3600): broadcast the assistant's
\* new-message
SM_AiExpire(p) ==
  /\ sm[p].pc = "aiExpire"
  /\ redisQ # <<>> /\ Head(redisQ) = SmO(p)
  /\ \E ok \in BOOLEAN :
       IF ok
         THEN /\ rlist' = [rlist EXCEPT ![sm[p].roomId] = Expire(@)]
              /\ bcast' = Append(bcast, AiMessage(sm[p], ga[p].resp))
              /\ sm' = [sm EXCEPT ![p].pc = "done"]
         ELSE /\ sm' = [sm EXCEPT ![p] = InnerCatch(@, "cache")]
              /\ UNCHANGED <<rlist, bcast>>
  /\ redisQ' = Tail(redisQ)
  /\ ga' = Finish(p)
  /\ UNCHANGED <<docs, nextId, pcache, acache, up, del, calls>>
  /\ UNCHANGED <<msgs, recv>>

\* ------------------------------------------------------ join-room handler
NoJoinData == [hasData |-> FALSE, roomId |-> "", userId |-> "", username |-> ""]

IdleJn ==
  [pc |-> "idle", seq |-> 0, data |-> NoJoinData, roomId |-> "",
   err |-> "none", emits |-> {}, messages |-> <<>>]

NoUser == [roomId |-> ""]

Reverse(q) == [k \in 1..Len(q) |-> q[Len(q) + 1 - k]]

\* !roomId || !userId || !username
MissingData(data) == data.roomId = "" \/ data.userId = "" \/ data.username = ""

\* catch (error) { socket.emit('error', { message: 'Failed to join room' }) }
JoinCatch(j, kind) ==
  [j EXCEPT !.pc = "done", !.err = kind, !.emits = @ \cup {"error:join"}]

Item(m) == [seq |-> m.seq, type |-> m.type]

\* timestamp order of the stored messages: the history, then the user
\* message of an event, then its assistant message
Stamp(m) == 2 * m.seq + (IF m.type = "ai" THEN 1 ELSE 0)

RECURSIVE ByStampDesc(_)
ByStampDesc(S) ==
  IF S = {} THEN <<>>
  ELSE LET m == CHOOSE x \in S : \A y \in S : Stamp(y) <= Stamp(x)
       IN <<m>> \o ByStampDesc(S \ {m})

\* Message.find({ roomId }).sort({ timestamp: -1 }).limit(50).lean()
FindRecent(roomId) ==
  LET found == ByStampDesc({m \in msgs : m.roomId = roomId})
  IN SubSeq(found, 1, Min(ListKeep, Len(found)))

\* socket.emit('room-messages', messages);
\* socket.to(roomId).emit('user-joined', { userId, username })
Deliver(j, messages) ==
  [j EXCEPT !.pc = "done", !.messages = messages,
            !.emits = @ \cup {"room-messages"}]

\* a join-room event arrives on connection s: destructuring (which throws
\* on an event without payload), validation, socket.join, hSet sent
JoinWith(s, payloads) ==
  /\ joins < MaxJoins
  /\ jn[s].pc \in {"idle", "done"}
  /\ dc[s].pc = "idle"
  /\ joins' = joins + 1
  /\ \E data \in payloads :
       LET j == [IdleJn EXCEPT !.seq = joins + 1, !.data = data,
                               !.roomId = data.roomId]
       IN
       IF ~data.hasData
         THEN /\ jn' = [jn EXCEPT ![s] = JoinCatch(j, "input")]
              /\ UNCHANGED <<members, redisQ>>
       ELSE IF MissingData(data)
         THEN /\ jn' = [jn EXCEPT ![s] =
                          [j EXCEPT !.pc = "done", !.err = "input",
                                    !.emits = {"error:missing"}]]
              /\ UNCHANGED <<members, redisQ>>
       ELSE /\ jn' = [jn EXCEPT ![s] = [j EXCEPT !.pc = "hset"]]
            /\ members' = members \cup {<<s, data.roomId>>}
            /\ redisQ' = Append(redisQ, JnO(s))
  /\ UNCHANGED <<docs, nextId, pcache, acache, ga, up, del, calls>>
  /\ UNCHANGED <<users, joined>>

JR_Receive(s) == JoinWith(s, JoinData)

\* a join-room event with a complete payload for one room or another
JR_Move(s) == JoinWith(s, MoveData)

\* reply of a Redis command of the join handler at <pc>
JoinReply(s, pc) ==
  /\ jn[s].pc = pc
  /\ redisQ # <<>> /\ Head(redisQ) = JnO(s)

\* a failed command of the join handler
JoinFailed(s, kind) ==
  /\ jn' = [jn EXCEPT ![s] = JoinCatch(@, kind)]
  /\ UNCHANGED <<members, users, joined, joins>>

\* the handler's last lines: room-messages to the connection, user-joined
\* to the others of the room
JoinDone(s, messages) ==
  /\ jn' = [jn EXCEPT ![s] = Deliver(@, messages)]
  /\ joined' = Append(joined, [roomId |-> jn[s].roomId, socket |-> s])
  /\ UNCHANGED <<members, users, joins>>

\* reply of redisClient.hSet(`user:${socket.id}`, ...); lRange is sent
JR_HSet(s) ==
  /\ JoinReply(s, "hset")
  /\ \E ok \in BOOLEAN :
       IF ok
         THEN /\ users' = [users EXCEPT ![s] = [roomId |-> jn[s].roomId]]
              /\ jn' = [jn EXCEPT ![s].pc = "lrange"]
              /\ redisQ' = Append(Tail(redisQ), JnO(s))
              /\ UNCHANGED <<members, joined, joins>>
         ELSE /\ JoinFailed(s, "cache")
              /\ redisQ' = Tail(redisQ)
  /\ UNCHANGED <<docs, nextId, pcache, acache, ga, up, del, calls>>
  /\ UNCHANGED rlist

\* reply of redisClient.lRange(cacheKey, 0, 49): a non-empty list is parsed
\* and reversed, for an empty one Message.find is sent
JR_LRange(s) ==
  /\ JoinReply(s, "lrange")
  /\ redisQ' = Tail(redisQ)
  /\ \E ok \in BOOLEAN :
       LET items == rlist[jn[s].roomId].items
           messages == SubSeq(items, 1, Min(ListKeep, Len(items)))
       IN IF ~ok THEN JoinFailed(s, "cache")
          ELSE IF Len(messages) = 0
            THEN /\ jn' = [jn EXCEPT ![s].pc = "find"]
                 /\ UNCHANGED <<members, users, joined, joins>>
          ELSE JoinDone(s, Reverse(messages))
  /\ UNCHANGED <<docs, nextId, pcache, acache, ga, up, del, calls>>
  /\ UNCHANGED rlist

\* reply of Message.find: the messages found are reversed (oldest first)
\* and lPush(cacheKey, ...messageStrings) is sent
JR_Find(s) ==
  /\ jn[s].pc = "find"
  /\ \E ok \in BOOLEAN :
       LET dbMessages == FindRecent(jn[s].roomId)
           messages == [k \in 1..Len(dbMessages) |->
                          Item(Reverse(dbMessages)[k])]
       IN IF ~ok
            THEN JoinFailed(s, "store") /\ UNCHANGED redisQ
          ELSE IF Len(dbMessages) > 0
            THEN /\ jn' = [jn EXCEPT ![s].pc = "lpush", ![s].messages = messages]
                 /\ redisQ' = Append(redisQ, JnO(s))
                 /\ UNCHANGED <<members, users, joined, joins>>
          ELSE JoinDone(s, <<>>) /\ UNCHANGED redisQ
  /\ UNCHANGED <<docs, nextId, pcache, acache, ga, up, del, calls>>
  /\ UNCHANGED rlist

\* reply of lPush(cacheKey, ...messageStrings): every string is pushed at
\* the head in turn, so the last one ends first; expire is sent
JR_LPush(s) ==
  /\ JoinReply(s, "lpush")
  /\ \E ok \in BOOLEAN :
       IF ok
         THEN /\ rlist' = [rlist EXCEPT ![jn[s].roomId].items =
                             Reverse(jn[s].messages) \o @]
              /\ jn' = [jn EXCEPT ![s].pc = "expire"]
              /\ redisQ' = Append(Tail(redisQ), JnO(s))
              /\ UNCHANGED <<members, users, joined, joins>>
         ELSE /\ JoinFailed(s, "cache")
              /\ redisQ' = Tail(redisQ)
              /\ UNCHANGED rlist
  /\ UNCHANGED <<docs, nextId, pcache, acache, ga, up, del, calls>>

\* reply of redisClient.expire(cacheKey, 3600)
JR_Expire(s) ==
  /\ JoinReply(s, "expire")
  /\ redisQ' = Tail(redisQ)
  /\ \E ok \in BOOLEAN :
       IF ok
         THEN /\ rlist' = [rlist EXCEPT ![jn[s].roomId] = Expire(@)]
              /\ JoinDone(s, jn[s].messages)
         ELSE /\ JoinFailed(s, "cache")
              /\ UNCHANGED rlist
  /\ UNCHANGED <<docs, nextId, pcache, acache, ga, up, del, calls>>

\* ----------------------------------------------------- disconnect handler
IdleDc == [pc |-> "idle", rooms |-> {}, seen |-> "", err |-> "none"]

\* the rooms connection s is in
RoomsOf(s) == {r \in Rooms : <<s, r>> \in members}

\* connection s is closed: the transport takes it out of its rooms, the
\* handler sends hGetAll(`user:${socket.id}`)
DC_Receive(s) ==
  /\ dc[s].pc = "idle"
  /\ dc' = [dc EXCEPT ![s] = [IdleDc EXCEPT !.pc = "hgetall", !.rooms = RoomsOf(s)]]
  /\ members' = {m \in members : m[1] # s}
  /\ redisQ' = Append(redisQ, DcO(s))
  /\ UNCHANGED <<users, left>>

\* reply of hGetAll: user-left goes to the room of the record, del is sent;
\* a rejection ends the handler in its catch
DC_HGetAll(s) ==
  /\ dc[s].pc = "hgetall"
  /\ redisQ # <<>> /\ Head(redisQ) = DcO(s)
  /\ \E ok \in BOOLEAN :
       IF ok
         THEN /\ left' = IF users[s].roomId # ""
                           THEN Append(left, [roomId |-> users[s].roomId, socket |-> s])
                           ELSE left
              /\ dc' = [dc EXCEPT ![s].pc = "del", ![s].seen = users[s].roomId]
              /\ redisQ' = Append(Tail(redisQ), DcO(s))
         ELSE /\ dc' = [dc EXCEPT ![s].pc = "done", ![s].err = "cache"]
              /\ redisQ' = Tail(redisQ)
              /\ UNCHANGED left
  /\ UNCHANGED <<users, members>>

\* reply of redisClient.del(`user:${socket.id}`)
DC_Del(s) ==
  /\ dc[s].pc = "del"
  /\ redisQ # <<>> /\ Head(redisQ) = DcO(s)
  /\ redisQ' = Tail(redisQ)
  /\ \E ok \in BOOLEAN :
       IF ok
         THEN /\ users' = [users EXCEPT ![s] = NoUser]
              /\ dc' = [dc EXCEPT ![s].pc = "done"]
         ELSE /\ dc' = [dc EXCEPT ![s].pc = "done", ![s].err = "cache"]
              /\ UNCHANGED users
  /\ UNCHANGED <<members, left>>

\* ----------------------------------------------------------- chunkDocument
\* texts are sequences of characters: a letter, a full stop, a space and a
\* line break
TextChars == {"a", ".", " ", "\n"}

Texts == UNION {[1..n -> TextChars] : n \in 0..MaxText}

IsSpace(c) == c \in {" ", "\n"}

RECURSIVE TrimStart(_)
TrimStart(s) ==
  IF Len(s) > 0 /\ IsSpace(s[1]) THEN TrimStart(Tail(s)) ELSE s

RECURSIVE TrimEnd(_)
TrimEnd(s) ==
  IF Len(s) > 0 /\ IsSpace(s[Len(s)]) THEN TrimEnd(SubSeq(s, 1, Len(s) - 1)) ELSE s

\* the blanks at the end are kept
Trim_StartOnly(s) == TrimStart(s)

\* String.prototype.trim
Trim(s) == TrimEnd(TrimStart(s))

\* String.prototype.slice(a, b): a negative position counts from the end
SlicePos(s, k) == IF k < 0 THEN Max(Len(s) + k, 0) ELSE Min(k, Len(s))

Slice(s, a, b) ==
  IF SlicePos(s, a) < SlicePos(s, b)
    THEN SubSeq(s, SlicePos(s, a) + 1, SlicePos(s, b))
    ELSE <<>>

MaxOf(S) == CHOOSE x \in S : \A y \in S : y <= x

\* chunk.lastIndexOf('. ') and chunk.lastIndexOf('\n'), -1 when absent
LastSentenceEnd(s) ==
  MaxOf({-1} \cup {k \in 0..(Len(s) - 2) : s[k + 1] = "." /\ s[k + 2] = " "})

LastParagraphEnd(s) ==
  MaxOf({-1} \cup {k \in 0..(Len(s) - 1) : s[k + 1] = "\n"})

IdleCk ==
  [pc |-> "idle", text |-> <<>>, chunkSize |-> 0, overlap |-> 0, start |-> 0,
   index |-> 0, chunks |-> <<>>, iter |-> 0, spans |-> <<>>]

\* where a chunk lies in the text: the window from <start> without the blanks
\* trim() took from its front, as long as the chunk (positions from 0, <to>
\* exclusive)
SpanOf(text, start, end, chunk) ==
  LET window == Slice(text, start, end)
      from == SlicePos(text, start) + (Len(window) - Len(TrimStart(window)))
  IN [from |-> from, to |-> from + Len(chunk)]

\* the text of the window at <start>, cut back to a sentence or paragraph
\* end when that keeps more than 70% of chunkSize
WindowChunk(c) ==
  LET end == Min(c.start + c.chunkSize, Len(c.text))
      chunk == Trim(Slice(c.text, c.start, end))
      breakPoint == Max(LastSentenceEnd(chunk), LastParagraphEnd(chunk))
  IN IF end < Len(c.text) /\ 10 * breakPoint > 7 * c.chunkSize
       THEN Trim(Slice(chunk, 0, breakPoint + 1))
       ELSE chunk

\* one pass of the while loop: push the chunk unless it is empty, move
\* start, leave the loop when start has reached the end of the text
LoopPass(c) ==
  LET chunk == WindowChunk(c)
      start == c.start + Len(chunk) - c.overlap
      end == Min(c.start + c.chunkSize, Len(c.text))
  IN [c EXCEPT !.chunks = IF Len(chunk) > 0
                            THEN Append(@, [text |-> chunk, index |-> c.index])
                            ELSE @,
               !.spans = IF Len(chunk) > 0
                           THEN Append(@, SpanOf(c.text, c.start, end, chunk))
                           ELSE @,
               !.index = IF Len(chunk) > 0 THEN @ + 1 ELSE @,
               !.start = start,
               !.iter = @ + 1,
               !.pc = IF start >= Len(c.text) THEN "returned" ELSE "loop"]

\* chunkDocument(text, chunkSize, overlap) up to the loop: a text of at most
\* chunkSize characters is returned as one chunk
CK_Call ==
  /\ ck.pc = "called"
  /\ ck' = IF Len(ck.text) <= ck.chunkSize
             THEN [ck EXCEPT !.pc = "returned",
                             !.chunks = <<[text |-> Trim(ck.text), index |-> 0]>>,
                             !.spans = <<SpanOf(ck.text, 0, Len(ck.text),
                                                Trim(ck.text))>>]
             ELSE [ck EXCEPT !.pc = "loop"]

CK_Pass ==
  /\ ck.pc = "loop"
  /\ ck.start < Len(ck.text)
  /\ ck.iter < MaxIter
  /\ ck' = LoopPass(ck)

\* ------------------------------------------- MessageInput: typing, debounce
\* message: the textarea's value, a sequence of characters; isTyping: the component's state; timer: the
\* debounced function of the current render has a timeout pending; orphans:
\* pending timeouts of debounced functions of earlier renders, counted by
\* the isTyping their callback closed over; shown: typing was emitted last
\* (the indicator the other clients show); events: input events so far;
\* sent: messages handed to onSendMessage
IdleTy ==
  [message |-> <<>>, isTyping |-> FALSE, timer |-> FALSE,
   orphans |-> [b \in BOOLEAN |-> 0], shown |-> FALSE, events |-> 0,
   sent |-> 0]

\* the render after a handler: useCallback keeps the debounced function
\* while isTyping (and onStopTyping) are unchanged; a changed isTyping yields
\* a new debounced function with a timeout variable of its own, and the
\* timeout of the old one stays pending with the old closure
Render(t, isTyping, timer) ==
  IF isTyping = t.isTyping
    THEN [t EXCEPT !.timer = timer]
    ELSE [t EXCEPT !.isTyping = isTyping, !.timer = FALSE,
                   !.orphans = IF timer THEN [@ EXCEPT ![t.isTyping] = @ + 1]
                               ELSE @]

\* handleInputChange(e) with e.target.value = value
HandleInputChange(t, value) ==
  LET t1 == [t EXCEPT !.message = value, !.events = @ + 1]
  IN IF Len(Trim(value)) > 0
       THEN Render([t1 EXCEPT !.shown = IF t.isTyping THEN @ ELSE TRUE],
                   TRUE, TRUE)
     ELSE IF t.isTyping
       THEN Render([t1 EXCEPT !.shown = FALSE], FALSE, t.timer)
     ELSE t1

TY_Input ==
  /\ ty.events < MaxKeys
  /\ \E value \in {<<>>, <<" ">>, <<"a">>} : ty' = HandleInputChange(ty, value)

\* handleSubmit: a blank message is not sent; onSendMessage, the message is
\* cleared, stop-typing when isTyping
TY_Submit ==
  /\ ty.events < MaxKeys
  /\ Len(Trim(ty.message)) > 0
  /\ ty' = Render([ty EXCEPT !.message = <<>>, !.events = @ + 1,
                             !.sent = @ + 1,
                             !.shown = IF ty.isTyping THEN FALSE ELSE @],
                  FALSE, ty.timer)

\* the callback closed over isTyping = b runs: if (isTyping) { onStopTyping();
\* setIsTyping(false) }
Later(t, b) ==
  IF b THEN Render([t EXCEPT !.shown = FALSE], FALSE, t.timer) ELSE t

\* a timeout set 1000 ms ago and not cleared since fires: that of the
\* current debounced function or one of an earlier render
TY_Timer ==
  \/ /\ ty.timer
     /\ ty' = Later([ty EXCEPT !.timer = FALSE], ty.isTyping)
  \/ \E b \in BOOLEAN :
       /\ ty.orphans[b] > 0
       /\ ty' = Later([ty EXCEPT !.orphans[b] = @ - 1], b)

\* JoinRoom renders again (a message arrived, ...): handleStopTyping is a new
\* function, so useCallback yields a new debounced function
TY_ParentRender ==
  /\ ty.events < MaxKeys
  /\ ty.timer
  /\ ty' = [ty EXCEPT !.timer = FALSE, !.orphans[ty.isTyping] = @ + 1,
                      !.events = @ + 1]

\* ------------------------------------------------ start.js: the supervisor
\* after startServer() at module load: one child running. codes: the exit
\* codes logged so far; errored: the child's 'error' event was logged
IdleSv ==
  [restartCount |-> 0, child |-> TRUE, timer |-> FALSE, starts |-> 1,
   exit |-> "none", codes |-> <<>>, errored |-> FALSE]

ExitCodes == {0, 1}

CanRestart_Inclusive(restartCount) == restartCount <= maxRestarts

\* restartCount < maxRestarts
CanRestart(restartCount) == restartCount < maxRestarts

\* server.on('close'): count and schedule startServer in 2000 ms, or
\* process.exit(1)
SV_Close ==
  /\ sv.child /\ sv.exit = "none"
  /\ \E code \in ExitCodes :
       sv' = IF CanRestart(sv.restartCount)
               THEN [sv EXCEPT !.child = FALSE, !.errored = FALSE,
                               !.codes = Append(@, code),
                               !.restartCount = @ + 1, !.timer = TRUE]
               ELSE [sv EXCEPT !.child = FALSE, !.errored = FALSE,
                               !.codes = Append(@, code), !.exit = "1"]

\* server.on('error'): the error is logged
SV_Error ==
  /\ sv.child /\ ~sv.errored /\ sv.exit = "none"
  /\ sv' = [sv EXCEPT !.errored = TRUE]

\* the timeout fires: startServer() spawns a child
SV_Start ==
  /\ sv.timer /\ sv.exit = "none"
  /\ sv' = [sv EXCEPT !.timer = FALSE, !.child = TRUE, !.starts = @ + 1]

\* ---------------------------------------------------------- specifications
\* ---------------------------------------------------------- specification
\* history bookkeeping of a step: a mutation forgets the recorded Answers,
\* a return records its Answer
HistNext ==
  LET mutated == docs' # docs \/ pcache' # pcache \/ acache' # acache
      base == IF mutated THEN << >> ELSE hist
      rets == {p \in Procs : ga[p].out = "pending" /\ ga'[p].out = "returned"}
      dom == DOMAIN base \cup {ArgsOf(ga'[p]) : p \in rets}
  IN hist' = [a \in dom |->
               IF \E p \in rets : ArgsOf(ga'[p]) = a
                 THEN ga'[CHOOSE p \in rets : ArgsOf(ga'[p]) = a].resp
                 ELSE base[a]]

\* ------------------------------------- retrieveRelevantChunks, drawn chunks
\* the chunk loop (lines 234-303) and the sort (306-308) over chunks whose
\* text, file and cache entry are inputs; texts are strings of characters
IdleSc == [pc |-> "idle", query |-> "", chunks |-> <<>>, i |-> 0,
           failed |-> {}, similarities |-> <<>>, sorted |-> <<>>, top |-> <<>>]

\* a stored chunk with its hash in the Passage Cache: entry "full" holds
\* embedding and text, "noText" an embedding only, "none" nothing; cosine is
\* the cosineSimilarity of the query's and the cached embedding
StoredChunk(text, fileType, originalName, entry, cosine) ==
  [text |-> text, fileType |-> fileType, originalName |-> originalName,
   entry |-> entry, cosine |-> cosine]

Scored(k, c, similarity, path) ==
  [idx |-> k, text |-> c.text, similarity |-> similarity,
   filename |-> c.originalName, fileType |-> c.fileType, path |-> path]

\* the relevance floor put on both branches
ScoreChunk_FloorAll(query, k, c, ok) ==
  IF c.fileType # ".pdf" /\ ~ok THEN <<>>
  ELSE IF c.fileType # ".pdf" /\ c.entry = "full"
    THEN IF Relevant(c.cosine) THEN <<Scored(k, c, c.cosine, "embedding")>>
         ELSE <<>>
  ELSE IF c.text = "" THEN <<>>
  ELSE LET similarity ==
             FallbackSimilarity(query, c.text, c.fileType, c.originalName)
       IN IF Relevant(similarity) THEN <<Scored(k, c, similarity, "lexical")>>
          ELSE <<>>

\* one pass of the loop body for chunk k: what it pushes. ok is the reply
\* of hGetAll, sent for files other than PDF only; its rejection is caught
\* at 298-301 and the chunk passed over
ScoreChunk(query, k, c, ok) ==
  IF c.fileType # ".pdf" /\ ~ok THEN <<>>
  ELSE IF c.fileType # ".pdf" /\ c.entry = "full"
    THEN <<Scored(k, c, c.cosine, "embedding")>>
  ELSE IF c.text = "" THEN <<>>
  ELSE LET similarity ==
             FallbackSimilarity(query, c.text, c.fileType, c.originalName)
       IN IF Relevant(similarity) THEN <<Scored(k, c, similarity, "lexical")>>
          ELSE <<>>

SC_Chunk ==
  /\ sc.pc = "scan"
  /\ sc.i < Len(sc.chunks)
  /\ \E ok \in BOOLEAN :
       LET k == sc.i + 1
           c == sc.chunks[k]
       IN /\ ok \/ c.fileType # ".pdf"
          /\ sc' = [sc EXCEPT
                      !.i = k,
                      !.failed = IF ok THEN @ ELSE @ \cup {k},
                      !.similarities = @ \o ScoreChunk(sc.query, k, c, ok)]

\* similarities.sort((a, b) => b.similarity - a.similarity).slice(0, topK)
SC_Sort ==
  /\ sc.pc = "scan"
  /\ sc.i = Len(sc.chunks)
  /\ sc' = [sc EXCEPT !.pc = "done", !.sorted = SortDesc(sc.similarities),
                      !.top = TopChunks(sc.similarities)]

NoList == [items |-> <<>>, ttl |-> 0]

\* ------------------------------------------------------------ updateMessage
\* contents are sequences of characters; times are in minutes
IdleUm == [pc |-> "idle", messageId |-> 0, content |-> <<>>, userId |-> "",
           at |-> 0, status |-> 0, error |-> "none"]

\* the request is answered; its arguments and the time of its checks stay
UmDone(status, error) ==
  [um EXCEPT !.pc = "idle", !.status = status, !.error = error]

Found(id) == \E m \in msgs : m.seq = id

MessageOf(id) == CHOOSE m \in msgs : m.seq = id

\* the checks after Message.findById: found, own message, not older than
\* five minutes
EditError_NoWindow(id, userId, t) ==
  IF ~Found(id) THEN "not found"
  ELSE IF MessageOf(id).userId # userId THEN "not authorized"
  ELSE "none"

EditError(id, userId, t) ==
  IF ~Found(id) THEN "not found"
  ELSE IF MessageOf(id).userId # userId THEN "not authorized"
  ELSE IF MessageOf(id).timestamp < t - EditWindow THEN "late"
  ELSE "none"

\* PUT /messages/:messageId: the required fields, then Message.findById
UM_Request(id, content, userId) ==
  /\ um.pc = "idle"
  /\ LET call == [IdleUm EXCEPT !.messageId = id, !.content = content,
                                !.userId = userId, !.at = now]
     IN um' = IF id = 0 \/ content = <<>> \/ userId = ""
                THEN [call EXCEPT !.status = 400, !.error = "required"]
                ELSE [call EXCEPT !.pc = "find"]
  /\ UNCHANGED <<msgs, rlist, now>>

\* reply of Message.findById; the three checks; then content and metadata
\* are set on the loaded message and message.save() is sent
UM_Find ==
  /\ um.pc = "find"
  /\ \E ok \in BOOLEAN :
       LET error == EditError(um.messageId, um.userId, now)
           at == [um EXCEPT !.at = now]
       IN um' = IF ~ok THEN [at EXCEPT !.pc = "idle", !.status = 500,
                                       !.error = "database"]
                ELSE IF error = "not found"
                  THEN [at EXCEPT !.pc = "idle", !.status = 404, !.error = error]
                ELSE IF error = "not authorized"
                  THEN [at EXCEPT !.pc = "idle", !.status = 403, !.error = error]
                ELSE IF error = "late"
                  THEN [at EXCEPT !.pc = "idle", !.status = 400, !.error = error]
                ELSE [at EXCEPT !.pc = "save"]
  /\ UNCHANGED <<msgs, rlist, now>>

\* reply of message.save(): content is required, so the empty string left
\* by trim() is rejected by validation; then keys(room:<roomId>:*) is sent
UM_Save ==
  /\ um.pc = "save"
  /\ \E ok \in BOOLEAN :
       IF ok /\ Found(um.messageId) /\ Trim(um.content) # <<>>
         THEN /\ msgs' = (msgs \ {MessageOf(um.messageId)}) \cup
                         {[MessageOf(um.messageId) EXCEPT
                             !.content = Trim(um.content), !.edited = TRUE]}
              /\ um' = [um EXCEPT !.pc = "keys"]
         ELSE /\ um' = UmDone(500, "database")
              /\ UNCHANGED msgs
  /\ UNCHANGED <<rlist, now>>

\* reply of keys(room:<roomId>:*): del(cacheKeys) when there are any
UM_Keys ==
  /\ um.pc = "keys"
  /\ \E ok \in BOOLEAN :
       um' = IF ~ok THEN UmDone(500, "cache")
             ELSE IF rlist[MessageOf(um.messageId).roomId].items # <<>>
               THEN [um EXCEPT !.pc = "del"]
             ELSE UmDone(200, "none")
  /\ UNCHANGED <<msgs, rlist, now>>

\* reply of del(cacheKeys); the request is answered
UM_Del ==
  /\ um.pc = "del"
  /\ \E ok \in BOOLEAN :
       IF ok
         THEN /\ rlist' = [rlist EXCEPT
                             ![MessageOf(um.messageId).roomId] = NoList]
              /\ um' = UmDone(200, "none")
         ELSE /\ um' = UmDone(500, "cache")
              /\ UNCHANGED rlist
  /\ UNCHANGED <<msgs, now>>

\* a minute passes
Tick ==
  /\ now < MaxNow
  /\ now' = now + 1
  /\ UNCHANGED <<um, msgs, rlist>>

\* document stores the program can be started on: completed documents
\* uploaded earlier, their embeddings cached or expired
RECURSIVE FileSeqs(_)
FileSeqs(n) ==
  IF n = 0 THEN {<<>>}
  ELSE FileSeqs(n - 1) \cup
       {Append(s, f) : s \in {t \in FileSeqs(n - 1) : Len(t) = n - 1},
                       f \in StoredFiles}

StoreOf(fs) ==
  [d \in DocIds |-> IF d <= Len(fs) THEN [status |-> "completed", file |-> fs[d]]
                    ELSE [status |-> "none", file |-> NoFile]]

AllKeys(fs) ==
  {<<d, i>> \in (1..Len(fs)) \X (0..BatchSize) :
     fs[d].type # ".pdf" /\ i < fs[d].nChunks}

InitBase ==
  /\ acache = << >>
  /\ redisQ = <<>>
  /\ ga = [p \in Procs |-> IdleGa]
  /\ up = IdleUp
  /\ del = IdleDel
  /\ calls = 0
  /\ hist = << >>
  /\ sm = [p \in Procs |-> IdleSm]
  /\ bcast = <<>>
  /\ recv = 0
  /\ jn = [s \in Sockets |-> IdleJn]
  /\ members = {}
  /\ users = [s \in Sockets |-> NoUser]
  /\ joined = <<>>
  /\ joins = 0
  /\ dc = [s \in Sockets |-> IdleDc]
  /\ left = <<>>
  /\ um = IdleUm
  /\ now = 0
  /\ rp = IdleRp
  /\ ty = IdleTy
  /\ sv = IdleSv

InitIdle == InitBase /\ sc = IdleSc

InitCommon ==
  /\ InitIdle
  /\ ck = IdleCk
  /\ msgs = {}
  /\ rlist = [r \in Rooms |-> NoList]

Init ==
  /\ \E fs \in FileSeqs(MaxDocs) :
       /\ \A i, j \in 1..Len(fs) : i # j => fs[i] # fs[j]
       /\ docs = StoreOf(fs)
       /\ nextId = Len(fs) + 1
       /\ pcache \in {AllKeys(fs), {}}
  /\ InitCommon

\* what every step of generateAnswer, upload and delete leaves alone
Frame ==
  /\ HistNext /\ UNCHANGED roomVars /\ UNCHANGED joinVars
  /\ UNCHANGED <<ck, dc, left, um, now, sc>> /\ UNCHANGED restVars

\* what every step of the send-message handler leaves alone
RoomFrame ==
  /\ HistNext /\ UNCHANGED joinVars /\ UNCHANGED <<ck, dc, left, um, now, sc>>
  /\ UNCHANGED restVars

\* what every step of the join-room handler leaves alone
JoinFrame ==
  /\ HistNext /\ UNCHANGED <<sm, msgs, bcast, recv, ck, dc, left, um, now, sc>>
  /\ UNCHANGED restVars

\* what every step of the disconnect handler leaves alone
LeaveFrame ==
  /\ UNCHANGED <<docs, nextId, pcache, acache, ga, up, del, calls>>
  /\ UNCHANGED <<sm, msgs, rlist, bcast, recv, ck, jn, joined, joins>>
  /\ UNCHANGED <<um, now, sc>> /\ UNCHANGED restVars
  /\ HistNext

AnswerSteps ==
  \/ \E p \in Procs : GA_CacheGet(p) /\ Frame
  \/ \E p \in Procs : RET_Find(p) /\ Frame
  \/ \E p \in Procs : RET_Chunk(p) /\ Frame
  \/ \E p \in Procs : GA_Web(p) /\ Frame
  \/ \E p \in Procs : GA_Count(p) /\ Frame
  \/ \E p \in Procs : GA_Gen(p) /\ Frame
  \/ \E p \in Procs : GA_CacheSet(p) /\ Frame

AnswerNext ==
  \/ \E p \in Procs : GA_Call(p) /\ Frame
  \/ AnswerSteps

DeleteNext ==
  \/ \E d \in DocIds : DEL_Find(d) /\ Frame
  \/ DEL_Remove /\ Frame
  \/ DDC_Keys /\ Frame
  \/ DDC_Del /\ Frame
  \/ DDC_AnswerKeys /\ Frame
  \/ DDC_Get /\ Frame

UploadNext ==
  \/ \E f \in Files : Upload(f) /\ Frame
  \/ PD_Save1 /\ Frame
  \/ PD_Batch /\ Frame
  \/ PD_Expire /\ Frame
  \/ PD_Delay /\ Frame
  \/ PD_Save2 /\ Frame
  \/ UP_SaveFailed /\ Frame

RoomNext ==
  \/ \E p \in Procs : SM_Receive(p) /\ RoomFrame
  \/ \E p \in Procs : SM_Save(p) /\ RoomFrame
  \/ \E p \in Procs : SM_Push(p) /\ RoomFrame
  \/ \E p \in Procs : SM_Trim(p) /\ RoomFrame
  \/ \E p \in Procs : SM_Expire(p) /\ RoomFrame
  \/ \E p \in Procs : SM_AiSave(p) /\ RoomFrame
  \/ \E p \in Procs : SM_AiPush(p) /\ RoomFrame
  \/ \E p \in Procs : SM_AiTrim(p) /\ RoomFrame
  \/ \E p \in Procs : SM_AiExpire(p) /\ RoomFrame

JoinNext ==
  \/ \E s \in Sockets : JR_Receive(s) /\ JoinFrame /\ UNCHANGED rlist
  \/ \E s \in Sockets : JR_HSet(s) /\ JoinFrame
  \/ \E s \in Sockets : JR_LRange(s) /\ JoinFrame
  \/ \E s \in Sockets : JR_Find(s) /\ JoinFrame
  \/ \E s \in Sockets : JR_LPush(s) /\ JoinFrame
  \/ \E s \in Sockets : JR_Expire(s) /\ JoinFrame

\* direct calls of generateAnswer on a store of completed documents
Next == AnswerNext

Spec == Init /\ [][Next]_vars

\* direct calls of generateAnswer with long questions
NextLong ==
  \/ \E p \in Procs : GA_CallLong(p) /\ Frame
  \/ AnswerSteps

SpecLong == Init /\ [][NextLong]_vars

\* chunkDocument on every text of up to MaxText characters, with every
\* chunkSize up to MaxSize and every overlap below it
InitChunk ==
  /\ docs = [d \in DocIds |-> [status |-> "none", file |-> NoFile]]
  /\ nextId = 1
  /\ pcache = {}
  /\ InitIdle
  /\ msgs = {}
  /\ rlist = [r \in Rooms |-> NoList]
  /\ \E text \in Texts, chunkSize \in 1..MaxSize :
       \E overlap \in 0..(chunkSize - 1) :
         ck = [IdleCk EXCEPT !.pc = "called", !.text = text,
                             !.chunkSize = chunkSize, !.overlap = overlap]

ChunkFrame ==
  /\ UNCHANGED <<docs, nextId, pcache, acache, redisQ, ga, up, del, calls, hist,
                 sm, msgs, rlist, bcast, recv, jn, members, users, joined, joins,
                 dc, left, um, now, sc>>
  /\ UNCHANGED restVars

NextChunk ==
  \/ CK_Call /\ ChunkFrame
  \/ CK_Pass /\ ChunkFrame

SpecChunk == InitChunk /\ [][NextChunk]_vars

\* chunkDocument on texts one character longer than chunkSize, with a
\* chunkSize at which a line break can lie beyond 70% of it, and every
\* overlap below it
BreakChars == {"a", " ", "\n"}

LongTexts == [1..MaxLong -> BreakChars]

InitBreak ==
  /\ docs = [d \in DocIds |-> [status |-> "none", file |-> NoFile]]
  /\ nextId = 1
  /\ pcache = {}
  /\ InitIdle
  /\ msgs = {}
  /\ rlist = [r \in Rooms |-> NoList]
  /\ \E text \in LongTexts, overlap \in 0..(BreakSize - 1) :
       ck = [IdleCk EXCEPT !.pc = "called", !.text = text,
                           !.chunkSize = BreakSize, !.overlap = overlap]

SpecBreak == InitBreak /\ [][NextChunk]_vars

\* reprocess requests on a store of documents in any status, with and
\* without their Passage Cache entries and cached Answers
StatusSeqs(n) == UNION {[1..k -> {"completed", "failed", "processing"}] : k \in 0..n}

CachedAnswers(fs) ==
  {<< >>, Put(<< >>, AnswerCacheKey("r1", QDoc, TRUE),
              [json |-> JsonStringify(Canned("noDocuments", 0, TRUE)),
               ttl |-> DocTtl])}
  \cup {Put(<< >>, AnswerCacheKey("r1", QDoc, TRUE),
             [json |-> JsonStringify([Canned("g1", 0, FALSE) EXCEPT
                         !.sources = <<[filename |-> ObjectIdStr(d),
                                        fileType |-> fs[d].type,
                                        similarity |-> 500]>>]),
              ttl |-> DocTtl]) : d \in 1..Len(fs)}

InitReprocess ==
  /\ \E fs \in FileSeqs(MaxDocs) : \E st \in StatusSeqs(MaxDocs) :
       /\ Len(st) = Len(fs)
       /\ \A i, j \in 1..Len(fs) : i # j => fs[i] # fs[j]
       /\ docs = [d \in DocIds |-> IF d <= Len(fs)
                                     THEN [status |-> st[d], file |-> fs[d]]
                                     ELSE [status |-> "none", file |-> NoFile]]
       /\ nextId = Len(fs) + 1
       /\ pcache \in {AllKeys(fs), {}}
       /\ acache \in CachedAnswers(fs)
  /\ redisQ = <<>>
  /\ ga = [p \in Procs |-> IdleGa]
  /\ up = IdleUp
  /\ del = IdleDel
  /\ calls = 0
  /\ hist = << >>
  /\ sm = [p \in Procs |-> IdleSm]
  /\ bcast = <<>>
  /\ recv = 0
  /\ jn = [s \in Sockets |-> IdleJn]
  /\ members = {}
  /\ users = [s \in Sockets |-> NoUser]
  /\ joined = <<>>
  /\ joins = 0
  /\ dc = [s \in Sockets |-> IdleDc]
  /\ left = <<>>
  /\ um = IdleUm
  /\ now = 0
  /\ rp = IdleRp
  /\ ty = IdleTy
  /\ sv = IdleSv
  /\ sc = IdleSc
  /\ ck = IdleCk
  /\ msgs = {}
  /\ rlist = [r \in Rooms |-> NoList]

ReprocessFrame ==
  /\ UNCHANGED roomVars /\ UNCHANGED joinVars
  /\ UNCHANGED <<ck, dc, left, um, now, sc, ty, sv>>
  /\ HistNext

NextReprocess ==
  \/ \E d \in DocIds : RP_Find(d) /\ ReprocessFrame
  \/ RP_Save1 /\ ReprocessFrame
  \/ RP_Keys /\ ReprocessFrame
  \/ RP_Del /\ ReprocessFrame
  \/ RP_AnswerKeys /\ ReprocessFrame
  \/ RP_Get /\ ReprocessFrame
  \/ RP_Create /\ ReprocessFrame
  \/ RP_SaveFailed /\ ReprocessFrame

SpecReprocess == InitReprocess /\ [][NextReprocess]_vars

\* edits of the messages of one room: a user's message and the assistant's
\* answer to it, the room's list cached
EditContents == {<<>>, <<" ">>, <<"n">>, <<" ", "n">>}

EditUsers == {"", "u1", "u2", "ai"}

StoredMessage(seq, userId, type, timestamp) ==
  [seq |-> seq, roomId |-> "r1", userId |-> userId, type |-> type,
   content |-> <<"o">>, timestamp |-> timestamp, edited |-> FALSE]

InitEdit ==
  /\ docs = [d \in DocIds |-> [status |-> "none", file |-> NoFile]]
  /\ nextId = 1
  /\ pcache = {}
  /\ InitIdle
  /\ ck = IdleCk
  /\ msgs = {StoredMessage(1, "u1", "user", 0), StoredMessage(2, "ai", "ai", 1)}
  /\ rlist = [r \in Rooms |->
                IF r = "r1"
                  THEN [items |-> <<[seq |-> 1, type |-> "user"],
                                    [seq |-> 2, type |-> "ai"]>>,
                        ttl |-> ListTtl]
                  ELSE NoList]

EditFrame ==
  /\ UNCHANGED <<docs, nextId, pcache, acache, redisQ, ga, up, del, calls, hist,
                 sm, bcast, recv, jn, members, users, joined, joins, ck,
                 dc, left, sc>>
  /\ UNCHANGED restVars

NextEdit ==
  \/ \E id \in 0..3, content \in EditContents, userId \in EditUsers :
       UM_Request(id, content, userId) /\ EditFrame
  \/ UM_Find /\ EditFrame
  \/ UM_Save /\ EditFrame
  \/ UM_Keys /\ EditFrame
  \/ UM_Del /\ EditFrame
  \/ Tick /\ EditFrame

SpecEdit == InitEdit /\ [][NextEdit]_vars

\* calls on an empty store or on one text document with its embedding
\* cached, the search API also replying with MaxOrganic results
InitWeb ==
  /\ \E fs \in {<<>>, <<FileMemo>>} :
       /\ docs = StoreOf(fs)
       /\ nextId = Len(fs) + 1
       /\ pcache = AllKeys(fs)
  /\ InitCommon

NextWeb ==
  \/ \E p \in Procs : GA_Call(p) /\ Frame
  \/ \E p \in Procs : GA_WebMany(p) /\ Frame
  \/ AnswerSteps

SpecWeb == InitWeb /\ [][NextWeb]_vars

\* scoring: every query of ScoreQueries against every sequence of up to
\* MaxChunks chunks of ScoreChunks
ScoreQueries ==
  {"alpha beta", "Alpha Beta", "is beta", "alpha beta omega", "is it", "z",
   "summary", "summary alpha beta"}

ScoreChunks ==
  {StoredChunk(t, ".txt", "n.txt", "none", 0) :
     t \in {"alpha beta gamma", "beta then alpha", "Alpha only",
            "gamma delta", ""}}
  \cup {StoredChunk("gamma delta", ".txt", "n.txt", "full", c) :
          c \in {-300, 0, 950}}
  \cup {StoredChunk("gamma delta", ".txt", "n.txt", "noText", 950)}
  \cup {StoredChunk(t, ".pdf", "Z.pdf", e, 950) :
          t \in {"alpha only", "gamma delta"}, e \in {"none", "full"}}

RECURSIVE ChunkSeqs(_)
ChunkSeqs(n) ==
  IF n = 0 THEN {<<>>}
  ELSE ChunkSeqs(n - 1) \cup
       {Append(cs, c) : cs \in {t \in ChunkSeqs(n - 1) : Len(t) = n - 1},
                        c \in ScoreChunks}

InitScore ==
  /\ docs = [d \in DocIds |-> [status |-> "none", file |-> NoFile]]
  /\ nextId = 1
  /\ pcache = {}
  /\ InitBase
  /\ ck = IdleCk
  /\ msgs = {}
  /\ rlist = [r \in Rooms |-> NoList]
  /\ \E query \in ScoreQueries, chunks \in ChunkSeqs(MaxChunks) :
       sc = [IdleSc EXCEPT !.pc = "scan", !.query = query, !.chunks = chunks]

ScoreFrame ==
  /\ UNCHANGED <<docs, nextId, pcache, acache, redisQ, ga, up, del, calls, hist,
                 sm, msgs, rlist, bcast, recv, jn, members, users, joined, joins,
                 ck, dc, left, um, now>>
  /\ UNCHANGED restVars

NextScore ==
  \/ SC_Chunk /\ ScoreFrame
  \/ SC_Sort /\ ScoreFrame

SpecScore == InitScore /\ [][NextScore]_vars

\* ingestion: uploads and deletes on an empty store, and one call
InitIngest ==
  /\ docs = [d \in DocIds |-> [status |-> "none", file |-> NoFile]]
  /\ nextId = 1
  /\ pcache = {}
  /\ InitCommon

NextIngest ==
  \/ UploadNext
  \/ DeleteNext
  \/ \E p \in Procs : GA_Call(p) /\ calls = 0 /\ Frame
  \/ AnswerSteps

SpecIngest == InitIngest /\ [][NextIngest]_vars

\* one question asked repeatedly in a room while documents are uploaded
NextAsk ==
  \/ UploadNext
  \/ \E p \in Procs : GA_Ask(p) /\ Frame
  \/ \E p \in Procs : GA_CacheGet(p) /\ Frame
  \/ \E p \in Procs : RET_Find(p) /\ Frame
  \/ \E p \in Procs : RET_Chunk(p) /\ Frame
  \/ \E p \in Procs : GA_Count(p) /\ Frame
  \/ \E p \in Procs : GA_Gen(p) /\ Frame
  \/ \E p \in Procs : GA_CacheSet(p) /\ Frame

SpecAsk == InitIngest /\ [][NextAsk]_vars

\* ingestion with every reply arriving in the end: a pending save, hSet,
\* expire or pause of processDocument and of the upload route, a pending
\* command of the delete route and a pending step of generateAnswer is
\* eventually answered; the requests themselves (Upload, DEL_Find, the
\* call) are under no obligation
UploadSteps ==
  \/ PD_Save1 /\ Frame
  \/ PD_Batch /\ Frame
  \/ PD_Expire /\ Frame
  \/ PD_Delay /\ Frame
  \/ PD_Save2 /\ Frame
  \/ UP_SaveFailed /\ Frame

DeleteSteps ==
  \/ DEL_Remove /\ Frame
  \/ DDC_Keys /\ Frame
  \/ DDC_Del /\ Frame
  \/ DDC_AnswerKeys /\ Frame
  \/ DDC_Get /\ Frame

SpecUploadFair ==
  /\ InitIngest
  /\ [][NextIngest]_vars
  /\ WF_vars(UploadSteps)
  /\ WF_vars(DeleteSteps)
  /\ WF_vars(AnswerSteps)

\* the room coordinator: send-message events on a store holding one
\* completed text document with its embeddings cached
InitRoom ==
  /\ docs = StoreOf(<<FileMemo>>)
  /\ nextId = 2
  /\ pcache = AllKeys(<<FileMemo>>)
  /\ InitCommon

NextRoom == RoomNext \/ AnswerSteps

SpecRoom == InitRoom /\ [][NextRoom]_vars

\* joins and one send-message event in a room with one stored message, the
\* room's list holding it or expired
HistoryMessage ==
  [seq |-> 0, roomId |-> "r1", type |-> "user", content |-> QPlain,
   answer |-> NoAnswer.answer]

InitJoin ==
  /\ docs = StoreOf(<<FileMemo>>)
  /\ nextId = 2
  /\ pcache = AllKeys(<<FileMemo>>)
  /\ InitIdle
  /\ ck = IdleCk
  /\ msgs = {HistoryMessage}
  /\ \E list \in {NoList, [items |-> <<Item(HistoryMessage)>>, ttl |-> ListTtl]} :
       rlist = [r \in Rooms |-> IF r = "r1" THEN list ELSE NoList]

NextJoin ==
  \/ JoinNext
  \/ \E p \in Procs : SM_Receive(p) /\ recv = 0 /\ RoomFrame
  \/ \E p \in Procs : SM_Save(p) /\ RoomFrame
  \/ \E p \in Procs : SM_Push(p) /\ RoomFrame
  \/ \E p \in Procs : SM_Trim(p) /\ RoomFrame
  \/ \E p \in Procs : SM_Expire(p) /\ RoomFrame
  \/ \E p \in Procs : SM_AiSave(p) /\ RoomFrame
  \/ \E p \in Procs : SM_AiPush(p) /\ RoomFrame
  \/ \E p \in Procs : SM_AiTrim(p) /\ RoomFrame
  \/ \E p \in Procs : SM_AiExpire(p) /\ RoomFrame
  \/ AnswerSteps

SpecJoin == InitJoin /\ [][NextJoin]_vars

\* joins and disconnects
NextLeave ==
  \/ JoinNext
  \/ \E s \in Sockets : DC_Receive(s) /\ LeaveFrame
  \/ \E s \in Sockets : DC_HGetAll(s) /\ LeaveFrame
  \/ \E s \in Sockets : DC_Del(s) /\ LeaveFrame

SpecLeave == InitJoin /\ [][NextLeave]_vars

\* connections that join one room after another, and disconnects
NextMove ==
  \/ \E s \in Sockets : JR_Move(s) /\ JoinFrame /\ UNCHANGED rlist
  \/ \E s \in Sockets : JR_HSet(s) /\ JoinFrame
  \/ \E s \in Sockets : JR_LRange(s) /\ JoinFrame
  \/ \E s \in Sockets : JR_Find(s) /\ JoinFrame
  \/ \E s \in Sockets : JR_LPush(s) /\ JoinFrame
  \/ \E s \in Sockets : JR_Expire(s) /\ JoinFrame
  \/ \E s \in Sockets : DC_Receive(s) /\ LeaveFrame
  \/ \E s \in Sockets : DC_HGetAll(s) /\ LeaveFrame
  \/ \E s \in Sockets : DC_Del(s) /\ LeaveFrame

SpecMove == InitJoin /\ [][NextMove]_vars

\* what the steps of the MessageInput component and of the supervisor leave
\* alone
ClientFrame ==
  UNCHANGED <<docs, nextId, pcache, acache, redisQ, ga, up, del, calls, hist,
              sm, msgs, rlist, bcast, recv, jn, members, users, joined, joins,
              ck, dc, left, um, now, sc, rp>>

\* one MessageInput component: input events, submits, renders of the parent
\* and timeouts, every pending timeout firing in the end
TypingSteps == TY_Timer /\ ClientFrame /\ UNCHANGED sv

NextTyping ==
  \/ TY_Input /\ ClientFrame /\ UNCHANGED sv
  \/ TY_Submit /\ ClientFrame /\ UNCHANGED sv
  \/ TY_Timer /\ ClientFrame /\ UNCHANGED sv
  \/ TY_ParentRender /\ ClientFrame /\ UNCHANGED sv

SpecTyping == InitIngest /\ [][NextTyping]_vars /\ WF_vars(TypingSteps)

\* the supervisor and its children
NextSupervisor ==
  \/ SV_Close /\ ClientFrame /\ UNCHANGED ty
  \/ SV_Error /\ ClientFrame /\ UNCHANGED ty
  \/ SV_Start /\ ClientFrame /\ UNCHANGED ty

SpecSupervisor == InitIngest /\ [][NextSupervisor]_vars


\* ------------------------------------------------------------------ claims
NoCalls(r) == r.nRet = 0 /\ r.nWeb = 0 /\ r.nGen = 0

\* C1 (as stated): a generateAnswer call that follows a call with the same
\* arguments, with no document or cache mutation in between, returns the
\* identical Answer from the Answer Cache without retrieval, web search or
\* generation.
C1_RepeatServedFromCache ==
  \A p \in Procs :
    (ga[p].out = "returned" /\ ga[p].prev # <<>>) =>
      (ga[p].resp = ga[p].prev[1] /\ ga[p].fromCache /\ NoCalls(ga[p]))

\* C1 (amended): the same, when the earlier call returned an Answer other
\* than the error apology and the later call's Answer Cache read succeeds.
C1_RepeatOfCachedAnswer ==
  \A p \in Procs :
    (ga[p].prev # <<>> /\ ~ga[p].prev[1].error /\ ga[p].fail # "cacheRead") =>
      (ga[p].out = "returned" /\ ga[p].resp = ga[p].prev[1]
       /\ ga[p].fromCache /\ NoCalls(ga[p]))

C1_Witness ==
  \E p \in Procs :
    /\ ga[p].out = "returned" /\ ga[p].prev # <<>> /\ ga[p].fromCache
    /\ ga[p].resp = ga[p].prev[1] /\ Len(ga[p].resp.sources) > 0

Cites(json, d) ==
  \E k \in 1..Len(json.text.sources) :
    json.text.sources[k].filename = docs[d].file.name

\* C4: when deleteDocumentFromCache(id) returns, no Answer Cache entry is
\* left whose sources cite the deleted document.
C4_DeleteInvalidatesAnswers ==
  [][(del.pc # "idle" /\ del'.pc = "idle" /\ del'.done = "clean") =>
       \A k \in DOMAIN acache' : ~Cites(acache'[k].json, del'.id)]_vars

InRetrieval(r) == r.pc \in {"find", "chunk"}

\* C5 (as stated): the chunks retrieveRelevantChunks returns belong to
\* documents whose status is completed, also for a document deleted while
\* the retrieval was scanning.
C5_ReturnedChunksCompleted ==
  [][\A p \in Procs :
       (InRetrieval(ga[p]) /\ ~InRetrieval(ga'[p])) =>
         \A k \in 1..Len(ga'[p].sims) :
           docs'[ga'[p].sims[k].docId].status = "completed"]_vars

\* C5 (amended): every chunk retrieveRelevantChunks collects or returns
\* belongs to a document whose status was completed when the retrieval read
\* the document store.
C5_ChunksCompletedAtFind ==
  \A p \in Procs :
    \A k \in 1..Len(ga[p].sims) : ga[p].sims[k].docId \in ga[p].atFind

C5_Witness ==
  \E p \in Procs, d \in DocIds :
    /\ ga[p].pc = "count" /\ ga[p].nRet = 1
    /\ docs[d].status = "processing" /\ <<d, 0>> \in pcache
    /\ d \notin ga[p].atFind

\* C6: generateAnswer never throws; it returns an Answer, and the apology
\* with empty sources and webResults when a step failed unrecoverably.
C6_NeverThrows ==
  \A p \in Procs :
    /\ ga[p].out # "thrown"
    /\ ga[p].out = "returned" => ga[p].resp # NoAnswer
    /\ (ga[p].out = "returned" /\ ga[p].fail # "none") =>
         ga[p].resp = ApologyAnswer

C6_Witness ==
  \E p \in Procs :
    ga[p].out = "returned" /\ ga[p].fail = "gen" /\ ga[p].resp = ApologyAnswer

\* C7: a failing Answer Cache read or write is treated as a miss: the call
\* still returns the synthesized Answer, not the apology.
C7_CacheErrorsAreMisses ==
  \A p \in Procs :
    (ga[p].out = "returned" /\ ga[p].fail \in {"cacheRead", "cacheWrite"}) =>
      ga[p].resp # ApologyAnswer


Answering(h) == h.pc \in {"answer", "aiPush", "aiTrim", "aiExpire"}

Broadcast(h, type) ==
  \E i \in 1..Len(bcast) : bcast[i].seq = h.seq /\ bcast[i].type = type

\* C8: with the cache store failing, a valid send-message is still persisted
\* and broadcast as new-message, and a question still gets its assistant
\* answer broadcast.
C8_CorrectWithoutCache ==
  \A p \in Procs :
    (sm[p].pc = "done" /\ sm[p].err = "cache") =>
      /\ UserMessage(sm[p]) \in msgs
      /\ Broadcast(sm[p], "user")
      /\ HasQuestionMark(sm[p].content) => Broadcast(sm[p], "ai")

\* C9: every accepted send-message whose content has a '?', once the
\* handler has called generateAnswer for it, gets a new-message of type ai
\* broadcast to the room, carrying the apology when the answer generation
\* failed.
C9_QuestionGetsAssistantMessage ==
  \A p \in Procs :
    (sm[p].pc = "done" /\ "ai-thinking" \in sm[p].emits) =>
      \E i \in 1..Len(bcast) :
        /\ bcast[i].seq = sm[p].seq /\ bcast[i].type = "ai"
        /\ sm[p].gaFail # "none" => bcast[i].answer = ApologyAnswer.answer

\* C10: within one room the user messages are broadcast in the order in
\* which their send-message events were received.
C10_BroadcastInAcceptanceOrder ==
  \A i, j \in 1..Len(bcast) :
    (i < j /\ bcast[i].type = "user" /\ bcast[j].type = "user"
       /\ bcast[i].roomId = bcast[j].roomId) => bcast[i].seq < bcast[j].seq


RoomBroadcasts(r) == SelectSeq(bcast, LAMBDA m : m.roomId = r)

\* C11: between the save of an assistant message and its new-message
\* broadcast, no other message is written to the same room's list and no
\* other broadcast goes to that room.
C11_AnswerSequenceAtomic ==
  [][\A p \in Procs :
       (sm[p].pc \in {"aiPush", "aiTrim", "aiExpire"} /\ sm'[p] = sm[p]) =>
         /\ rlist'[sm[p].roomId] = rlist[sm[p].roomId]
         /\ RoomBroadcasts(sm[p].roomId)' = RoomBroadcasts(sm[p].roomId)]_vars

\* the broadcast messages of room r, newest first, as list items
BroadcastItems(r) ==
  LET b == RoomBroadcasts(r)
  IN [k \in 1..Len(b) |-> [seq |-> b[Len(b) + 1 - k].seq,
                           type |-> b[Len(b) + 1 - k].type]]

ListedBroadcasts(r) ==
  SelectSeq(rlist[r].items,
            LAMBDA it : \E k \in 1..Len(bcast) :
                          bcast[k].seq = it.seq /\ bcast[k].type = it.type)

\* what the interleaving leaves intact (one Redis connection, replies in
\* order): the broadcast messages appear in the room's list in the order in
\* which they were broadcast
ListOrderIsBroadcastOrder ==
  \A r \in Rooms : ListedBroadcasts(r) = BroadcastItems(r)

\* what other clients see: the room broadcasts, the user-joined emits and
\* the emits of the other handlers
OthersSee(kind, k) ==
  <<bcast, joined,
    [p \in Procs |-> IF kind = "sm" /\ p = k THEN {} ELSE sm[p].emits],
    [s \in Sockets |-> IF kind = "jn" /\ s = k THEN {} ELSE jn[s].emits]>>

Returns(p) == ga[p].out = "pending" /\ ga'[p].out = "returned"

\* the call of p asks for a web search the room has disabled, and its
\* retrieval has ended without a passage
DisabledNoPassage(p) ==
  /\ ga[p].pc \in {"count", "cacheSet"}
  /\ Len(ga[p].sims) = 0
  /\ isWebSearchRequest(ga[p].question) /\ ~ga[p].wse

\* C13 (first and second part): the web search is called only for a question
\* that asks for it while web search is enabled; a call that asks for it
\* while it is disabled never calls the search.
C13_SearchOnlyRequestedAndEnabled ==
  \A p \in Procs :
    /\ (ga[p].nWeb > 0 \/ ga[p].pc = "web") =>
         isWebSearchRequest(ga[p].question) /\ ga[p].wse
    /\ ga[p].nWeb <= 1

\* C13: a call that asks for a web search while it is disabled and whose
\* retrieval found no passage returns the 'web search is disabled' answer.
C13_DisabledReturnsRefusal ==
  [][\A p \in Procs :
       (Returns(p) /\ DisabledNoPassage(p)) =>
         ga'[p].resp = Canned("webDisabled", 0, FALSE)]_vars

\* C13 as the code has it: the search is called only when asked for and
\* enabled, and the call that asks for a disabled search and retrieves no
\* passage returns the refusal unless the document count or the cache write
\* failed, and then the apology.
C13_DisabledReturnsRefusalOrApology ==
  [][/\ C13_SearchOnlyRequestedAndEnabled'
     /\ \A p \in Procs :
          (Returns(p) /\ DisabledNoPassage(p)) =>
            ga'[p].resp = IF ga'[p].fail \in {"count", "cacheWrite"}
                            THEN ApologyAnswer
                            ELSE Canned("webDisabled", 0, FALSE)]_vars

\* a call has returned the refusal without a search, and another one has
\* searched the web
C13_Witness ==
  /\ \E p \in Procs :
       /\ ga[p].out = "returned" /\ ga[p].nRet > 0 /\ ga[p].nWeb = 0
       /\ ga[p].resp = Canned("webDisabled", 0, FALSE)
  /\ \E p \in Procs : ga[p].nWeb = 1

\* the canned answers of a call without passages and web results
CannedTexts == {"webDisabled", "noDocuments", "notRelevant"}

\* C14: a failed web search leaves the call where an empty result list
\* leaves it, and a call whose web search failed and that meets no other
\* failure returns, with empty webResults, the generated answer on its
\* passages when it retrieved some and a canned answer otherwise, not the
\* apology.
C14_WebFailureIsNoResults ==
  [][\A p \in Procs :
       /\ (ga[p].pc = "web" /\ ~ga[p].webErr /\ ga'[p].webErr) =>
            ga'[p] = [AfterWeb(ga[p], <<>>) EXCEPT !.webErr = TRUE]
       /\ (Returns(p) /\ ga[p].webErr /\ ga'[p].fail = "none") =>
            /\ ~ga'[p].resp.error
            /\ ga'[p].resp.webResults = <<>>
            /\ IF Len(ga[p].sims) > 0
                 THEN /\ ga'[p].resp.answer[1] \in GenTexts
                      /\ Len(ga'[p].resp.sources) = Len(ga[p].sims)
                 ELSE /\ ga'[p].resp.answer[1] \in CannedTexts
                      /\ ga'[p].resp.sources = <<>>
       /\ (~ga[p].webErr /\ ga'[p].webErr) => ga'[p].out = "pending"]_vars

\* after a failed web search one call has returned a generated answer on
\* its passages and another one a canned answer
C14_Witness ==
  /\ \E p \in Procs :
       /\ ga[p].out = "returned" /\ ga[p].webErr
       /\ ga[p].resp.answer[1] \in GenTexts /\ ga[p].resp.sources # <<>>
  /\ \E p \in Procs :
       /\ ga[p].out = "returned" /\ ga[p].webErr
       /\ ga[p].resp.answer[1] \in CannedTexts

\* the retrieval of the call has completed; its result is in sims
Retrieved(r) == r.pc \in {"web", "count", "gen", "cacheSet"}

Pos(seq, x) == CHOOSE k \in 1..Len(seq) : seq[k] = x

Elems(seq) == {seq[k] : k \in 1..Len(seq)}

C15_TieReturned ==
  \E p \in Procs :
    /\ Retrieved(ga[p])
    /\ \E i, j \in 1..Len(ga[p].sims) :
         i < j /\ ga[p].sims[i].similarity = ga[p].sims[j].similarity

\* C16: a chunk of a completed document that has no Passage Cache entry is
\* scored by the lexical fallback on its stored text: when no read of the
\* retrieval failed, the chunk is a candidate with its lexical similarity
\* if that exceeds 0.1, it is never a candidate with another score, and the
\* retrieval completes without an error of the call.
C16_MissingEntryScoredLexically ==
  \A p \in Procs :
    Retrieved(ga[p]) =>
      /\ ga[p].fail = "none"
      /\ \A d \in DocIds : \A i \in 0..(docs[d].file.nChunks - 1) :
           (docs[d].status = "completed" /\ <<d, i>> \notin pcache) =>
             LET doc == [id |-> d, file |-> docs[d].file]
                 lex == LexicalSimilarity(ga[p].question, docs[d].file, i)
             IN /\ \A x \in Elems(ga[p].cands) :
                     (x.docId = d /\ x.idx = i) => x = Candidate(doc, i, lex)
                /\ (~ga[p].retErr /\ lex # NaN /\ lex > 100) =>
                     Candidate(doc, i, lex) \in Elems(ga[p].cands)

\* a retrieval on a text document without cache entries has completed and
\* returns one of its chunks
C16_Witness ==
  \E p \in Procs :
    /\ Retrieved(ga[p]) /\ pcache = {}
    /\ \E k \in 1..Len(ga[p].sims) :
         /\ ga[p].sims[k].fileType = ".txt"
         /\ docs[ga[p].sims[k].docId].status = "completed"

\* C17: two calls that differ in roomId, question or flag use different
\* Answer Cache keys.
C17_DistinctArgsDistinctKeys ==
  \A p, q \in Procs :
    (ga[p].pc # "idle" /\ ga[q].pc # "idle" /\ ArgsOf(ga[p]) # ArgsOf(ga[q])) =>
      KeyOf(ga[p]) # KeyOf(ga[q])

\* C17 (consequence): a call is answered from the cache only with the Answer
\* of an earlier call with the same room, question and flag.
C17_CachedAnswerIsOwn ==
  [][\A p \in Procs :
       (~ga[p].fromCache /\ ga'[p].fromCache) => ArgsOf(ga[p]) \in DOMAIN hist]_vars

\* C18: in every Answer returned, no two entries of sources name the same
\* document and no two entries of webResults the same url.
C18_AttributionsDeduplicated ==
  \A p \in Procs :
    ga[p].out = "returned" =>
      /\ \A i, j \in 1..Len(ga[p].resp.sources) :
           i # j => ga[p].resp.sources[i].filename # ga[p].resp.sources[j].filename
      /\ \A i, j \in 1..Len(ga[p].resp.webResults) :
           i # j => ga[p].resp.webResults[i].url # ga[p].resp.webResults[j].url

\* C19: every pass of the sliding-window loop that does not leave the loop
\* moves the start position forward.
C19_LoopAdvances ==
  [][(ck.pc = "loop" /\ ck'.pc = "loop") => ck'.start > ck.start]_vars

\* C19: a pass of the loop whose window has reached the end of the text
\* leaves the loop.
C19_LastWindowExits ==
  [][(ck.pc = "loop" /\ ck'.iter # ck.iter
        /\ ck.start + ck.chunkSize >= Len(ck.text)) => ck'.pc = "returned"]_vars

\* C20: for a text of at most chunkSize characters chunkDocument returns
\* exactly one chunk, with index 0 and the trimmed text.
C20_ShortTextOneChunk ==
  (ck.pc = "returned" /\ Len(ck.text) <= ck.chunkSize) =>
    /\ Len(ck.chunks) = 1
    /\ ck.chunks[1].index = 0
    /\ ck.chunks[1].text = Trim(ck.text)
    /\ LET chunk == ck.chunks[1].text
           n == Len(ck.text)
       IN /\ \E a \in 0..n : \E b \in 0..(n - a) :
               /\ chunk = SubSeq(ck.text, a + 1, n - b)
               /\ \A i \in 1..a : IsSpace(ck.text[i])
               /\ \A i \in (n - b + 1)..n : IsSpace(ck.text[i])
          /\ Len(chunk) > 0 => ~IsSpace(chunk[1]) /\ ~IsSpace(chunk[Len(chunk)])

\* a text of at most chunkSize characters with blanks at both ends has been
\* returned as one chunk that is not empty
C20_Witness ==
  /\ ck.pc = "returned" /\ Len(ck.text) <= ck.chunkSize /\ Len(ck.text) > 2
  /\ IsSpace(ck.text[1]) /\ IsSpace(ck.text[Len(ck.text)])
  /\ Len(ck.chunks) = 1 /\ Len(ck.chunks[1].text) > 0

UserLeft(s, r) == \E k \in 1..Len(left) : left[k] = [roomId |-> r, socket |-> s]

\* C21: once the disconnect handler of a connection has finished, user-left
\* has been emitted to the room the connection had joined and no
\* user:<socketId> record of the connection exists.
C21_DisconnectReleases ==
  \A s \in Sockets :
    dc[s].pc = "done" =>
      /\ users[s] = NoUser
      /\ \A r \in dc[s].rooms : UserLeft(s, r)

\* what holds: when no command of the disconnect handler was rejected, the
\* record is gone and user-left went to the room the record named
C21_ReleasesWithoutFailure ==
  \A s \in Sockets :
    (dc[s].pc = "done" /\ dc[s].err = "none") =>
      /\ users[s] = NoUser
      /\ dc[s].seen # "" => UserLeft(s, dc[s].seen)

\* a disconnect that arrived while the join-room handler was running has
\* been handled
C21_DuringJoin ==
  \E s \in Sockets :
    /\ dc[s].pc = "done" /\ dc[s].err = "none" /\ dc[s].rooms # {}
    /\ jn[s].pc \notin {"idle", "done"}

\* positions in the broadcast sequence of the messages of an event
BroadcastAt(seq, type) ==
  {i \in 1..Len(bcast) : bcast[i].seq = seq /\ bcast[i].type = type}

\* C22: for every accepted send-message whose handler has finished, the
\* answer was asked for exactly when the content has a '?', and then the
\* user's new-message, ai-thinking and exactly one assistant new-message
\* have occurred in that order; a message without '?' gets no answer.
C22_OneAnswerInOrder ==
  \A p \in Procs :
    (sm[p].pc = "done" /\ sm[p].err # "input") =>
      IF HasQuestionMark(sm[p].content)
        THEN /\ "ai-thinking" \in sm[p].emits
             /\ Cardinality(BroadcastAt(sm[p].seq, "user")) = 1
             /\ Cardinality(BroadcastAt(sm[p].seq, "ai")) = 1
             /\ \A i \in BroadcastAt(sm[p].seq, "user") :
                  \A j \in BroadcastAt(sm[p].seq, "ai") : i < j
        ELSE /\ "ai-thinking" \notin sm[p].emits
             /\ BroadcastAt(sm[p].seq, "ai") = {}

\* what holds: an answer is asked for at most once per event, only for a
\* content with '?' and only after the user's new-message; at most one
\* assistant message follows, after the user's
C22_AtMostOneAnswerInOrder ==
  \A p \in Procs :
    /\ ga[p].nGen <= 1
    /\ "ai-thinking" \in sm[p].emits =>
         /\ HasQuestionMark(sm[p].content)
         /\ Cardinality(BroadcastAt(sm[p].seq, "user")) = 1
    /\ ga[p].pc # "idle" => "ai-thinking" \in sm[p].emits
    /\ Cardinality(BroadcastAt(sm[p].seq, "ai")) <= 1
    /\ BroadcastAt(sm[p].seq, "ai") # {} =>
         /\ "ai-thinking" \in sm[p].emits
         /\ \A i \in BroadcastAt(sm[p].seq, "user") :
              \A j \in BroadcastAt(sm[p].seq, "ai") : i < j

\* C23 (as stated): a document record does not stay in 'processing': every
\* record an upload created reaches 'completed' or 'failed' in the end,
\* also when a step of processDocument fails after the record was first
\* saved (a record deleted meanwhile has ended too).
C23_ProcessingEnds ==
  \A d \in DocIds :
    (docs[d].status = "processing") ~>
      (docs[d].status \in {"completed", "failed", "deleted"})

\* C23 (supporting): no step takes a record from 'completed' to 'failed' or
\* to 'processing', nor from 'failed' to 'completed'.
C23_NoFlip ==
  [][\A d \in DocIds :
       /\ docs[d].status = "completed" =>
            docs'[d].status \in {"completed", "deleted"}
       /\ docs[d].status = "failed" =>
            docs'[d].status \in {"failed", "deleted"}]_vars

\* C23 (supporting): the upload request is over, its second save was
\* rejected, and the record is still in 'processing'.
C23_StuckInProcessing ==
  \E d \in DocIds :
    /\ docs[d].status = "processing"
    /\ up.pc = "idle"
    /\ del.pc = "idle"

\* C24: a stored message changes only in a step of an updateMessage request
\* that named the message, gave all three fields and the userId of the
\* message's author, and was checked no later than 5 minutes after the
\* message's timestamp; the room's cached list changes only in such a
\* request; every other request ends with status 400, 403, 404 or 500, the
\* messages and the list as they were.
EditAllowed ==
  /\ um.messageId # 0 /\ um.content # <<>> /\ um.userId # ""
  /\ Found(um.messageId)
  /\ MessageOf(um.messageId).userId = um.userId
  /\ um.at <= MessageOf(um.messageId).timestamp + EditWindow

C24_EditOnlyInWindow ==
  [][/\ msgs' # msgs =>
          /\ um.pc = "save" /\ EditAllowed
          /\ \A m \in msgs : m.seq # um.messageId => m \in msgs'
     /\ rlist' # rlist => um.pc = "del" /\ EditAllowed
     /\ (um'.pc = "idle" /\ um'.status = 200) => EditAllowed
     /\ (um'.pc = "idle" /\ um' # um /\ ~EditAllowed') =>
          /\ um'.status \in {400, 403, 404, 500}
          /\ msgs' = msgs /\ rlist' = rlist]_vars

\* C24 (witness): an edit of the user's message went through, and a later
\* request by its author, more than 5 minutes after the timestamp, was
\* refused.
C24_EditedThenRefused ==
  /\ \E m \in msgs : m.edited /\ m.userId = "u1" /\ m.content = <<"n">>
  /\ um.pc = "idle" /\ um.status = 400 /\ um.error = "late"
  /\ um.userId = "u1"

\* the chunk loop of SpecScore: chunk k was scored on the fallback branch,
\* on the embedding branch; the candidates pushed for it; its place among
\* the sorted candidates (the result is their first topK)
ScLexical(k) ==
  /\ k \in 1..sc.i /\ k \notin sc.failed /\ sc.chunks[k].text # ""
  /\ sc.chunks[k].fileType = ".pdf" \/ sc.chunks[k].entry # "full"

ScEmbedding(k) ==
  /\ k \in 1..sc.i /\ k \notin sc.failed
  /\ sc.chunks[k].fileType # ".pdf" /\ sc.chunks[k].entry = "full"

ScCands(k) == {j \in DOMAIN sc.similarities : sc.similarities[j].idx = k}

ScPlaces(k) == {a \in DOMAIN sc.sorted : sc.sorted[a].idx = k}

ScWords == Split(ToLowerCase(sc.query))

\* the query's words longer than 2 characters, and those of them that occur
\* in the text of chunk k
ScCounted == {j \in DOMAIN ScWords : Len(ScWords[j]) > 2}

ScMatched(k) ==
  {j \in ScCounted : StrIncludes(ToLowerCase(sc.chunks[k].text), ScWords[j])}

ScSubstring(k) ==
  StrIncludes(ToLowerCase(sc.chunks[k].text), ToLowerCase(sc.query))

ScAllWords(k) == ScCounted # {} /\ ScMatched(k) = ScCounted

ScSomeWords(k) == ScMatched(k) # {} /\ ScMatched(k) # ScCounted

ScNoWord(k) ==
  \A j \in DOMAIN ScWords :
    ScWords[j] # "" =>
      ~StrIncludes(ToLowerCase(sc.chunks[k].text), ScWords[j])

\* the query names a PDF keyword or the name of chunk k's PDF file
ScBoosted(k) ==
  /\ sc.chunks[k].fileType = ".pdf"
  /\ \/ \E kw \in {"pdf", "document", "file", "summary"} :
          StrIncludes(ToLowerCase(sc.query), kw)
     \/ StrIncludes(ToLowerCase(sc.query),
                    StripPdf(ToLowerCase(sc.chunks[k].originalName)))

ScExpected(k) ==
  IF ScSubstring(k) THEN 900
  ELSE (700 * Cardinality(ScMatched(k))) \div Cardinality(ScCounted)

\* C25 (as stated): a chunk scored on the lexical path has similarity 0.9
\* when the query is a substring of its text and else 0.7 * matched / total
\* over the query words longer than 2 characters; a chunk with all of these
\* words comes before a chunk with only some of them among the sorted
\* candidates, and a chunk with no word of the query is not a candidate.
C25_LexicalScoreAndRank ==
  sc.pc = "done" =>
    /\ \A k \in 1..sc.i :
         (ScLexical(k) /\ (ScSubstring(k) \/ ScCounted # {})) =>
           \A j \in ScCands(k) : sc.similarities[j].similarity = ScExpected(k)
    /\ \A k1, k2 \in 1..sc.i :
         (ScLexical(k1) /\ ScLexical(k2) /\ ScAllWords(k1) /\ ScSomeWords(k2)) =>
           /\ ScPlaces(k1) # {}
           /\ \A a \in ScPlaces(k1), b \in ScPlaces(k2) : a < b
    /\ \A k \in 1..sc.i : (ScLexical(k) /\ ScNoWord(k)) => ScPlaces(k) = {}

\* C25 (amended): the same for the chunks that do not get the PDF floor of
\* 0.8: the score formula and the exclusion hold for a chunk that is not a
\* PDF chunk under a query naming a PDF keyword or its file, and a chunk
\* with all counted words comes before such a chunk with only some.
C25_LexicalScoreAndRankUnboosted ==
  sc.pc = "done" =>
    /\ \A k \in 1..sc.i :
         (ScLexical(k) /\ ~ScBoosted(k) /\ (ScSubstring(k) \/ ScCounted # {})) =>
           \A j \in ScCands(k) : sc.similarities[j].similarity = ScExpected(k)
    /\ \A k1, k2 \in 1..sc.i :
         (/\ ScLexical(k1) /\ ScLexical(k2) /\ ~ScBoosted(k2)
          /\ ScAllWords(k1) /\ ScSomeWords(k2)) =>
           /\ ScPlaces(k1) # {}
           /\ \A a \in ScPlaces(k1), b \in ScPlaces(k2) : a < b
    /\ \A k \in 1..sc.i :
         (ScLexical(k) /\ ~ScBoosted(k) /\ ScNoWord(k)) => ScPlaces(k) = {}

\* C25 (witness): a text chunk with one of the two query words was scored
\* before a text chunk with both, and the sort put the latter first.
C25_Witness ==
  /\ sc.pc = "done" /\ Len(sc.sorted) = 2
  /\ ScLexical(1) /\ ScLexical(2) /\ ~ScBoosted(1) /\ ~ScBoosted(2)
  /\ ScSomeWords(1) /\ ScAllWords(2) /\ ~ScSubstring(2)
  /\ sc.sorted[1].idx = 2 /\ sc.sorted[1].similarity = 700
  /\ sc.sorted[2].similarity = 350

\* C26: a chunk scored on the lexical path is a candidate iff its
\* similarity is > 0.1; a chunk scored from its cached embedding is always
\* a candidate, with the cosine similarity whatever its value; the sort
\* drops no candidate.
C26_FloorOnLexicalOnly ==
  /\ \A k \in 1..sc.i :
       /\ ScEmbedding(k) =>
            /\ Cardinality(ScCands(k)) = 1
            /\ \A j \in ScCands(k) :
                 /\ sc.similarities[j].similarity = sc.chunks[k].cosine
                 /\ sc.similarities[j].path = "embedding"
       /\ ScLexical(k) =>
            LET similarity ==
                  FallbackSimilarity(sc.query, sc.chunks[k].text,
                    sc.chunks[k].fileType, sc.chunks[k].originalName)
            IN /\ ScCands(k) # {} <=> (similarity # NaN /\ similarity > 100)
               /\ \A j \in ScCands(k) :
                    /\ sc.similarities[j].similarity = similarity
                    /\ sc.similarities[j].path = "lexical"
  /\ sc.pc = "done" =>
       \A j \in DOMAIN sc.similarities :
         \E a \in DOMAIN sc.sorted : sc.sorted[a] = sc.similarities[j]

\* C26 (witness): a candidate from a cached embedding with a similarity of 0
\* or less is among the sorted candidates, next to a lexical-path chunk
\* that was dropped.
C26_Witness ==
  /\ sc.pc = "done"
  /\ \E a \in DOMAIN sc.sorted :
       sc.sorted[a].path = "embedding" /\ sc.sorted[a].similarity <= 0
  /\ \E k \in 1..sc.i : ScLexical(k) /\ ScCands(k) = {}

\* C27 (as stated): a PDF chunk, under a query that contains 'pdf',
\* 'document', 'file', 'summary' or the name of its file without the
\* extension, is a candidate with a similarity of at least 0.8.
C27_PdfBoostKeeps ==
  \A k \in 1..sc.i :
    (ScBoosted(k) /\ sc.chunks[k].text # "") =>
      /\ ScCands(k) # {}
      /\ \A j \in ScCands(k) : sc.similarities[j].similarity >= 800

\* C27 (supporting): the same for the queries that have a word longer than 2
\* characters or are a substring of the chunk's text.
C27_PdfBoostKeepsCountedQuery ==
  \A k \in 1..sc.i :
    (/\ ScBoosted(k) /\ sc.chunks[k].text # ""
     /\ ScSubstring(k) \/ ScCounted # {}) =>
      /\ ScCands(k) # {}
      /\ \A j \in ScCands(k) : sc.similarities[j].similarity >= 800

\* C27 (supporting): a PDF chunk was passed over under a query that is the
\* name of its file.
C27_BoostedChunkDropped ==
  \E k \in 1..sc.i :
    /\ ScBoosted(k) /\ sc.chunks[k].text # "" /\ ScCounted = {}
    /\ ScCands(k) = {}

\* a call that found no passage and no web result ends
EndsWithoutSources(p) ==
  /\ Returns(p) /\ ga[p].pc \in {"count", "cacheSet"}
  /\ Len(ga[p].sims) = 0 /\ Len(ga[p].web) = 0

\* the canned answer for the call's arguments and the number of completed
\* documents
ExpectedCanned(r) ==
  [answer |-> IF ~r.wse /\ isWebSearchRequest(r.question)
                THEN <<"webDisabled", 0, FALSE>>
              ELSE IF CountCompleted = 0 THEN <<"noDocuments", 0, r.wse>>
              ELSE <<"notRelevant", CountCompleted, r.wse>>,
   sources |-> <<>>, webResults |-> <<>>, wse |-> "absent", error |-> FALSE]

\* C28 (as stated): a call with zero passages and zero web results makes no
\* generation call and returns the canned answer that its arguments and the
\* number of completed documents determine (disabled search / no documents /
\* none relevant), with empty sources and webResults.
C28_NoSourcesCanned ==
  [][\A p \in Procs :
       /\ (ga[p].pc # "gen" /\ ga'[p].pc = "gen") =>
            Len(ga'[p].sims) + Len(ga'[p].web) > 0
       /\ EndsWithoutSources(p) =>
            /\ ga'[p].nGen = 0
            /\ ga'[p].resp = ExpectedCanned(ga[p])]_vars

\* C28 (amended): the same, the apology returned instead when the count of
\* the documents or the write of the answer to the cache failed.
C28_NoSourcesCannedOrApology ==
  [][\A p \in Procs :
       /\ (ga[p].pc # "gen" /\ ga'[p].pc = "gen") =>
            Len(ga'[p].sims) + Len(ga'[p].web) > 0
       /\ EndsWithoutSources(p) =>
            /\ ga'[p].nGen = 0
            /\ ga'[p].resp = IF ga'[p].fail \in {"count", "cacheWrite"}
                               THEN ApologyAnswer
                               ELSE ExpectedCanned(ga[p])]_vars

\* C28 (witness): one call has returned the 'none relevant' answer and
\* another one the 'web search is disabled' answer, neither from the cache
\* and neither after a generation call.
C28_Witness ==
  \E p, q \in Procs :
    /\ ga[p].out = "returned" /\ ~ga[p].fromCache /\ ga[p].nGen = 0
    /\ ga[p].resp.answer[1] = "notRelevant" /\ ga[p].resp.sources = <<>>
    /\ ga[q].out = "returned" /\ ~ga[q].fromCache /\ ga[q].nGen = 0
    /\ ga[q].resp.answer[1] = "webDisabled"

\* C29: the prompt of a generation call is the combined one iff there are
\* passages and web results, the web-only one iff there are web results
\* only, the documents-only one iff there are passages only; with web
\* search disabled the prompt is the documents-only one and webResults is
\* empty; the web results of a call and the webResults of an Answer never
\* number more than 4.
C29_PromptBySources ==
  \A p \in Procs :
    /\ ga[p].pc = "gen" =>
         /\ ga[p].prompt = "combined" <=>
              (Len(ga[p].sims) > 0 /\ Len(ga[p].web) > 0)
         /\ ga[p].prompt = "webOnly" <=>
              (Len(ga[p].sims) = 0 /\ Len(ga[p].web) > 0)
         /\ ga[p].prompt = "documentsOnly" <=>
              (Len(ga[p].sims) > 0 /\ Len(ga[p].web) = 0)
         /\ ~ga[p].wse => ga[p].prompt = "documentsOnly"
    /\ ~ga[p].wse => ga[p].web = <<>> /\ ga[p].resp.webResults = <<>>
    /\ Len(ga[p].web) <= 4
    /\ Len(ga[p].resp.webResults) <= 4

\* C29 (witness): the search API replied with more than 4 results; one call
\* generates on the combined prompt with 4 of them, and another call, made
\* with web search disabled, has returned a generated answer without web
\* results.
C29_Witness ==
  \E p, q \in Procs :
    /\ ga[p].pc = "gen" /\ ga[p].prompt = "combined" /\ Len(ga[p].web) = 4
    /\ ga[q].out = "returned" /\ ~ga[q].wse /\ ga[q].nGen = 1
    /\ ga[q].resp.webResults = <<>> /\ Len(ga[q].resp.sources) > 0

\* C30: every write to the Answer Cache sets a lifetime of 1800 seconds when
\* the answer written used at least one web result and of 3600 seconds
\* otherwise, and every entry of the Answer Cache has the lifetime of its
\* answer.
C30_TtlByWebResults ==
  [][/\ \A k \in DOMAIN acache' :
          (k \notin DOMAIN acache \/ acache'[k] # acache[k]) =>
            \E p \in Procs :
              /\ ga[p].pc = "cacheSet" /\ KeyOf(ga[p]) = k
              /\ acache'[k].json = JsonStringify(ga[p].resp)
              /\ acache'[k].ttl = IF Len(ga[p].web) > 0 THEN 1800 ELSE 3600
     /\ \A k \in DOMAIN acache' :
          acache'[k].ttl =
            IF Len(JsonParse(acache'[k].json).webResults) > 0
              THEN 1800 ELSE 3600]_vars

\* C30 (witness): the Answer Cache holds an answer with web results at 1800
\* seconds and one without at 3600 seconds.
C30_Witness ==
  \E j, k \in DOMAIN acache :
    /\ acache[j].ttl = 1800 /\ Len(JsonParse(acache[j].json).webResults) > 0
    /\ acache[k].ttl = 3600 /\ JsonParse(acache[k].json).webResults = <<>>
\* the first window was cut back at a line break: the chunk ends at a line
\* break that is followed by more text of the window
BrokeAtParagraph ==
  /\ ck.spans[1].to < ck.chunkSize
  /\ ck.text[ck.spans[1].to + 1] = "\n"
  /\ \E j \in (ck.spans[1].to + 2)..ck.chunkSize : ~IsSpace(ck.text[j])

\* C31: for a text longer than chunkSize every chunk is at most chunkSize
\* characters long.
C31_ChunksWithinSize ==
  Len(ck.text) > ck.chunkSize =>
    \A k \in 1..Len(ck.chunks) :
      /\ Len(ck.chunks[k].text) <= ck.chunkSize
      /\ ck.chunks[k].text = SubSeq(ck.text, ck.spans[k].from + 1, ck.spans[k].to)

\* C31: for a text longer than chunkSize every returned chunk is at most
\* chunkSize characters long and every chunk after the first starts exactly
\* overlap characters before the end of the span of the chunk before it.
C31_ChunksOverlap ==
  (ck.pc = "returned" /\ Len(ck.text) > ck.chunkSize) =>
    /\ \A k \in 1..Len(ck.chunks) : Len(ck.chunks[k].text) <= ck.chunkSize
    /\ \A k \in 2..Len(ck.chunks) :
         ck.spans[k].from = ck.spans[k - 1].to - ck.overlap

\* a text longer than chunkSize has been returned in several chunks, the
\* first of them cut back at a line break
C31_Witness ==
  /\ ck.pc = "returned" /\ Len(ck.text) > ck.chunkSize
  /\ Len(ck.chunks) > 1
  /\ BrokeAtParagraph
\* the chunks so far are not empty, carry no blank at either end and are
\* numbered 0, 1, ... in output order
ChunksKeptDense ==
  \A k \in 1..Len(ck.chunks) :
    LET chunk == ck.chunks[k].text
    IN /\ Len(chunk) > 0
       /\ ~IsSpace(chunk[1]) /\ ~IsSpace(chunk[Len(chunk)])
       /\ ck.chunks[k].index = k - 1

\* C32: every chunk chunkDocument produces has a text that is not empty and
\* is trimmed, and the indices are 0, 1, ..., n-1 in output order, for every
\* input text, blank texts included.
C32_ChunksNonEmptyDense == ChunksKeptDense

\* C32, the sliding-window loop alone: for a text longer than chunkSize the
\* chunks are not empty, trimmed and densely numbered, and a window that
\* trims to nothing adds no chunk.
C32_LoopChunksNonEmptyDense ==
  Len(ck.text) > ck.chunkSize => ChunksKeptDense /\ ck.index = Len(ck.chunks)

\* a pass of the loop over a window of blanks has been made and chunks were
\* kept before it
C32_LoopWitness ==
  /\ ck.pc = "loop" /\ ck.iter > Len(ck.chunks) /\ Len(ck.chunks) > 0
\* C33: a reprocess request that was accepted ends with the same record in
\* status completed and none of the Passage Cache entries it had before.
C33_ReprocessCompletes ==
  (rp.pc = "done" /\ rp.out \notin {"notFound", "rejected"}) =>
    docs[rp.id].status = "completed"

\* C33: a reprocess request on a record in status processing is rejected
\* and changes neither the document store nor the caches.
C33_RejectedUnchanged ==
  [][(rp'.pc = "done" /\ rp'.out = "rejected" /\ rp.pc # "done") =>
       UNCHANGED <<docs, pcache, acache>>]_vars

\* C33: reprocessing creates no second record: the records of the store stay
\* the same ones.
C33_NoSecondRecord ==
  [][\A d \in DocIds : Exists(d)' <=> Exists(d)]_vars

\* a reprocess request on a completed document, every command of which
\* succeeded, has been answered
C33_Witness ==
  /\ rp.pc = "done" /\ rp.before = "completed" /\ rp.out = "failed"
  /\ \A k \in pcache : k[1] # rp.id
\* C34: a canned Answer served from the Answer Cache is the one the document
\* store yields at that moment: it is not the Answer cached before a
\* document reached status completed.
C34_CachedAnswerNotStale ==
  [][\A p \in Procs :
       (ga[p].out = "pending" /\ ga'[p].out = "returned" /\ ga'[p].fromCache
          /\ ga'[p].resp.answer[1] \in CannedTexts)
       => ga'[p].resp = CannedAnswer(ga[p], CountCompleted)]_vars

\* a call was answered from the Answer Cache with 'no uploaded documents'
\* while a completed document is in the store
C34_StaleServed ==
  \E p \in Procs :
    /\ ga[p].out = "returned" /\ ga[p].fromCache
    /\ ga[p].resp.answer[1] = "noDocuments"
    /\ CountCompleted > 0
\* the most recent messages persisted for a room, at most ListKeep of them,
\* oldest first
RecentPersisted(roomId) ==
  LET inRoom == {m \in msgs : m.roomId = roomId}
      recent == {m \in inRoom :
                   Cardinality({o \in inRoom : Stamp(o) > Stamp(m)}) < ListKeep}
  IN Reverse(ByStampDesc(recent))

ItemsOf(q) == [k \in 1..Len(q) |-> [seq |-> q[k].seq, type |-> q[k].type]]

RoomQuiet == (\A p \in Procs : SmFree(p)) /\ (\A s \in Sockets : jn[s].pc \in {"idle", "done"})

\* C35: a join that succeeds delivers in room-messages the most recent
\* min(50, N) messages persisted for the room, oldest first, whether they
\* come from the room's list or from the message store (here: while no
\* send-message handler is at work and none has met a failure).
C35_JoinDeliversRecent ==
  [][\A s \in Sockets :
       (jn[s].pc # "done" /\ jn'[s].pc = "done"
          /\ "room-messages" \in jn'[s].emits
          /\ \A p \in Procs : SmFree(p) /\ sm[p].err = "none")
       => jn'[s].messages = ItemsOf(RecentPersisted(jn[s].roomId))]_vars

\* with no handler at work and after no failure, a connection has been
\* given a room-messages list that holds the last message only and lacks
\* the one persisted before it
C35_PartialHistory ==
  /\ RoomQuiet
  /\ \E s \in Sockets :
       /\ jn[s].pc = "done" /\ "room-messages" \in jn[s].emits
       /\ Len(jn[s].messages) = 1 /\ jn[s].messages[1].seq > 0
       /\ Len(RecentPersisted(jn[s].roomId)) = 2
       /\ \A m \in msgs : m.seq < jn[s].seq
       /\ \A p \in Procs : sm[p].err = "none"

Distinct(q) == \A i, j \in 1..Len(q) : i # j => q[i] # q[j]

\* C36: when no handler is at work the room's list holds at most 50
\* entries and no message twice.
C36_ListBoundedDistinct ==
  RoomQuiet =>
    \A r \in Rooms : Len(rlist[r].items) <= ListKeep /\ Distinct(rlist[r].items)

\* with no handler at work the list of a room holds a message twice after
\* a join has loaded it from the message store
C36_Duplicated ==
  /\ RoomQuiet
  /\ \E r \in Rooms : ~Distinct(rlist[r].items)
  /\ \E s \in Sockets : jn[s].pc = "done" /\ "room-messages" \in jn[s].emits
\* C37: a connection whose last join succeeded is a member of one room, the
\* room its user:<socketId> record names, and the disconnect handler that
\* met no failure has emitted user-left to every room the connection was in.
C37_OneRoomAsRecorded ==
  \A s \in Sockets :
    /\ (jn[s].pc = "done" /\ jn[s].err = "none" /\ dc[s].pc = "idle") =>
         RoomsOf(s) = {users[s].roomId}
    /\ (dc[s].pc = "done" /\ dc[s].err = "none") =>
         \A r \in dc[s].rooms : UserLeft(s, r)

\* a connection has joined two rooms in turn, every command succeeding, and
\* is a member of both while its record names the second
C37_InTwoRooms ==
  \E s \in Sockets :
    /\ jn[s].pc = "done" /\ jn[s].err = "none" /\ dc[s].pc = "idle"
    /\ Cardinality(RoomsOf(s)) = 2
    /\ users[s].roomId = jn[s].roomId
EverJoined(s) == \E k \in 1..Len(joined) : joined[k].socket = s

\* C38: a connection whose join-room handler has emitted 'Failed to join
\* room', and that has joined no room before, is a member of no room and has
\* no user:<socketId> record, and no user-joined was emitted for it.
C38_FailedJoinNoTrace ==
  \A s \in Sockets :
    (jn[s].pc = "done" /\ "error:join" \in jn[s].emits /\ ~EverJoined(s)) =>
      /\ RoomsOf(s) = {}
      /\ users[s] = NoUser

\* C38, the part that holds: the handler that emits 'Failed to join room'
\* emits no user-joined and no room-messages.
C38_FailedJoinNotAnnounced ==
  [][\A s \in Sockets :
       (jn[s].pc # "done" /\ jn'[s].pc = "done" /\ "error:join" \in jn'[s].emits)
       => joined' = joined /\ "room-messages" \notin jn'[s].emits]_vars

\* a join has failed at the list read: the connection is in the room and
\* its record is stored
C38_FailedButInRoom ==
  \E s \in Sockets :
    /\ jn[s].pc = "done" /\ "error:join" \in jn[s].emits /\ ~EverJoined(s)
    /\ RoomsOf(s) = {jn[s].roomId} /\ users[s].roomId = jn[s].roomId
\* C39: once typing has been emitted, stop-typing is emitted in the end
\* (every pending timeout fires and the user stops making input).
C39_TypingCleared == ty.shown ~> ~ty.shown

\* C39, as a state property: while typing is the last thing emitted, a
\* timeout whose callback will emit stop-typing is pending.
C39_StopTypingPending ==
  ty.shown => ((ty.timer /\ ty.isTyping) \/ ty.orphans[TRUE] > 0)

\* after a single keystroke typing has been emitted, the timeout has fired
\* and no timeout is left
C39_StuckTyping ==
  /\ ty.shown /\ ty.events = 1 /\ ty.isTyping
  /\ ~ty.timer /\ \A b \in BOOLEAN : ty.orphans[b] = 0
ChildClosed == Len(sv'.codes) = Len(sv.codes) + 1

\* C40: the supervisor starts the server at most maxRestarts + 1 times;
\* restartCount only grows; a child exit that finds restartCount below
\* maxRestarts counts it and schedules exactly one restart; the child exit
\* that finds restartCount = maxRestarts makes the supervisor exit with
\* code 1, and nothing is started after that.
C40_BoundedRestarts ==
  [][/\ sv'.starts <= maxRestarts + 1
     /\ sv'.restartCount >= sv.restartCount
     /\ sv'.starts \in {sv.starts, sv.starts + 1}
     /\ (ChildClosed /\ sv.restartCount < maxRestarts) =>
          /\ sv'.restartCount = sv.restartCount + 1
          /\ ~sv.timer /\ sv'.timer /\ sv'.starts = sv.starts
          /\ sv'.exit = "none"
     /\ (ChildClosed /\ sv.restartCount = maxRestarts) =>
          /\ sv'.exit = "1" /\ ~sv'.timer /\ ~sv'.child
          /\ sv'.starts = sv.starts
     /\ sv'.starts = sv.starts + 1 => (sv.timer /\ ~sv'.timer /\ sv.exit = "none")
     /\ sv.exit = "1" => sv' = sv]_vars

\* the sixth child has exited and the supervisor has left with code 1
C40_Witness ==
  /\ sv.exit = "1" /\ sv.starts = maxRestarts + 1
  /\ sv.restartCount = maxRestarts /\ Len(sv.codes) = maxRestarts + 1
====
